---- MODULE Spec2Model ----
(***************************************************************************)
(* Model of the note-content reconciliation and backup engine of the       *)
(* plugin (src/main.ts): the bulk scan of a note, the backupNote lock,     *)
(* doBackupNote, the debounced auto-backup of the vault 'modify' listener   *)
(* and onunload.                                                           *)
(*                                                                         *)
(* The program is single threaded: one action of the model is the code     *)
(* that runs between two suspension points (await).  A task is one running *)
(* invocation of an async handler; its pc names the await it is suspended  *)
(* at.  Continuations of "await lockPromise" are promise reactions: they   *)
(* are queued in registration order in the microtask queue (ready) and run *)
(* before anything else.                                                   *)
(***************************************************************************)
EXTENDS Integers, Sequences, FiniteSets, TLC

\* ------------------------------------------------------------------ bounds
MaxTriggers == 1      \* menu clicks (bulk scan) the user makes
MaxEdits == 1         \* edits of a note made by the user
MaxEnvChanges == 1    \* changes of the settings and removals of a backup folder
MaxFiles == 2         \* files of one drop or paste event
MaxScans == 2         \* bulk scans of one note in flight together
MaxTasks == 2 * MaxTriggers + MaxEdits   \* every trigger, and every modification, starts at most one task

Tasks == 1 .. MaxTasks

\* ------------------------------------------------------------- the vault
Notes == {"A/note.md", "B/note.md"}

Parent(n) == IF n = "A/note.md" THEN "A" ELSE "B"

Basename(n) == "note"

\* a name or a path is the sequence of its characters; " " is a whitespace
\* character, "/" separates folders, "." starts the extension
Png == <<".", "p", "n", "g">>

ImgA == <<"a">> \o Png

ImgB == <<"b">> \o Png

ImgX == <<"x">> \o Png

ImgSp == <<"c", " ", "d">> \o Png

ImgPA == <<"p", "/", "a">> \o Png

ImgQA == <<"q", "/", "a">> \o Png

ImgH == <<"h", "t", "t", "p", "x">> \o Png

\* paths of the image files of the vault; x is referenced but absent
VaultImages == {ImgA, ImgB, ImgSp, ImgPA, ImgQA, ImgH}

\* values of settings.backupPath ("" = not configured)
BackupPaths == {"", "bk"}

\* a file name: ts = Date.now() prefix "ts-" (0 = none), sfx = suffix " (sfx)" (0 = none)
FName(ts, base, sfx) == <<ts, base, sfx>>

\* a piece of note text: k = "wiki" ![[name]], "md" ![](name),
\* "url" ![name](https://bucket/ts-name?sign), "bk" ![..](./ts-name (sfx)),
\* "txt" text typed by the user (ts numbers it)
Tok(k, name, ts, sfx) == [k |-> k, name |-> name, ts |-> ts, sfx |-> sfx]

\* a text and the number of modifications it has seen (ver is a history stamp)
Text(toks, ver) == [toks |-> toks, ver |-> ver]

NoFile == Text(<<>>, -1)

None == "none"

\* null where a file is expected (no path has this form)
Null == <<"null">>

\* the texts note A starts with; note B starts with text that has no image reference
InitTexts ==
    { <<Tok("wiki", ImgA, 0, 0), Tok("wiki", ImgA, 0, 0)>>,
      <<Tok("wiki", ImgX, 0, 0), Tok("md", ImgB, 0, 0)>>,
      <<Tok("url", ImgA, 1, 0), Tok("wiki", ImgB, 0, 0)>> }

VARIABLES
    backupPath,         \* settings.backupPath
    unloaded,           \* onunload has run
    note,               \* note -> Text, the note's content in the vault
    folders,            \* paths of the folders that exist
    shadow,             \* note backup folder -> Text of {B}-backup.md, or NoFile
    backupImgs,         \* <<folder, file name, bytes>> of the image files in backup folders
    backupLocks,        \* note path -> task whose lockPromise is stored, 0 = no entry
    waiters,            \* task -> tasks awaiting its lockPromise, in registration order
    ready,              \* microtask queue: reactions of settled lockPromises
    backupSyncTimers,   \* note path -> id of the stored timer, 0 = no entry
    timers,             \* <<note, id>> of the host timers that are pending
    task,               \* task -> record of the running handler
    nextTask,           \* next unused task
    triggers,           \* menu clicks made
    edits,              \* user edits made
    envChanges,         \* settings changes and folder removals made
    issued,             \* history: the unfinished backupNote calls, in call order
    cred,               \* settings: which of secretId, secretKey, bucket, region are set
    uploader,           \* this.uploader is a COSUploader (FALSE: undefined)
    initTimer,          \* the settings tab's debounced initUploader is pending
    editor,             \* the links inserted into the editor, in order
    puts,               \* history: the files handed to cos.putObject, in order
    notices,            \* history: the notices shown for files of drop and paste events
    unhandled,          \* the awaits whose error no catch block of the program received
    localImgs,          \* paths of the files of the vault outside the backup folders
    found,              \* the last call of findImageFile: its arguments and its result
    scanned,            \* the last full-scan lookup: the backup images listed, the name, the match
    refreshed,          \* the last refresh of a text: settings.prefix, the text, the new text
    manager             \* the ImageManagerModal, its requests in flight and the bucket

vars == <<backupPath, unloaded, note, folders, shadow, backupImgs, backupLocks,
          waiters, ready, backupSyncTimers, timers, task, nextTask,
          triggers, edits, envChanges, issued,
          cred, uploader, initTimer, editor, puts, notices, unhandled, localImgs, found, scanned, refreshed, manager>>

upVars == <<cred, uploader, initTimer, editor, puts, notices>>

resVars == <<localImgs, found, scanned, refreshed, manager>>

\* findImageFile has not been called
NoCall == [path |-> <<>>, n |-> "none", file |-> Null]

\* the full scan has looked up no name
NoLookup == [files |-> <<>>, name |-> <<>>, hit |-> Null]

\* keys of the images in the bucket
Keys == {"k1", "k2"}

\* the image manager has not been opened: images = [], selectedImages = new Set(),
\* loading = false; shown: the keys whose items are in the DOM; list and del: the
\* loadImages and deleteSelectedImages calls in flight; answer: the confirm
\* dialog's promise; requests: history of the key sets handed to deleteMultipleImages
NoManager ==
    [opened |-> FALSE, images |-> {}, selectedImages |-> {}, loading |-> FALSE,
     shown |-> {}, bucket |-> Keys,
     list |-> [pc |-> "idle", reset |-> FALSE, result |-> {}],
     del |-> [pc |-> "idle", keys |-> {}, answer |-> "pending", button |-> "none",
              delivered |-> 0, result |-> {}],
     deletes |-> 0, requests |-> <<>>]

\* no text has been refreshed
NoRefresh == [prefix |-> <<"">>, text |-> <<>>, out |-> <<>>, done |-> FALSE]

CredFields == {"secretId", "secretKey", "bucket", "region"}

\* ------------------------------------------------------------ path rules
StripSlash(p) == IF p = "/bk" THEN "bk" ELSE p

BackupFolderPath(n, bp) == IF bp # "" THEN StripSlash(bp) ELSE Parent(n) \o "/backup"

NoteBackupFolderPath(n, bp) == BackupFolderPath(n, bp) \o "/" \o Basename(n)

NoteFolders == {NoteBackupFolderPath(n, bp) : n \in Notes, bp \in BackupPaths}

\* ------------------------------------------------------------ text rules
RECURSIVE FirstIndex(_, _, _)
FirstIndex(toks, tok, i) ==
    IF i > Len(toks) THEN 0
    ELSE IF toks[i] = tok THEN i
    ELSE FirstIndex(toks, tok, i + 1)

\* String.prototype.replace(string, string): the first occurrence only
ReplaceFirst(toks, old, new) ==
    LET i == FirstIndex(toks, old, 1) IN
    IF i = 0 THEN toks ELSE [toks EXCEPT ![i] = new]

\* imagePath.startsWith("http")
StartsWithHttp(path) == Len(path) >= 4 /\ SubSeq(path, 1, 4) = <<"h", "t", "t", "p">>

\* localWikiImages' filter: a wiki match whose path does not start with "http"
IsLocalWiki(tok) == tok.k = "wiki" /\ ~StartsWithHttp(tok.name)

\* localMarkdownImages' filter: a markdown match whose path does not start with
\* "http" (the path of a cloud link does)
IsLocalMd(tok) == tok.k = "md" /\ ~StartsWithHttp(tok.name)

\* allLocalImages: the local wiki matches, then the local markdown matches
AllLocalImages(toks) == SelectSeq(toks, IsLocalWiki) \o SelectSeq(toks, IsLocalMd)

RECURSIVE LastSlash(_, _)
\* position of the last "/" of s at or before i, 0 if there is none
LastSlash(s, i) ==
    IF i = 0 THEN 0 ELSE IF s[i] = "/" THEN i ELSE LastSlash(s, i - 1)

\* TFile.name, and imagePath.split("/").pop()
FileName(path) == SubSeq(path, LastSlash(path, Len(path)) + 1, Len(path))

\* name.replace(/\s/g, "")
NoWs(s) == SelectSeq(s, LAMBDA c : c # " ")

RECURSIVE Dashed(_)
\* name.replace(/\s+/g, "-")
Dashed(s) ==
    IF s = <<>> THEN <<>>
    ELSE IF Head(s) # " " THEN <<Head(s)>> \o Dashed(Tail(s))
    ELSE IF Len(s) > 1 /\ s[2] = " " THEN Dashed(Tail(s))
    ELSE <<"-">> \o Dashed(Tail(s))

RECURSIVE LastDot(_, _)
\* position of the last "." of s at or before i, 0 if there is none
LastDot(s, i) ==
    IF i = 0 THEN 0 ELSE IF s[i] = "." THEN i ELSE LastDot(s, i - 1)

RECURSIVE FirstDot(_, _)
\* position of the first "." of s at or after i, Len(s) + 1 if there is none
FirstDot(s, i) ==
    IF i > Len(s) THEN i ELSE IF s[i] = "." THEN i ELSE FirstDot(s, i + 1)

\* name.split(".")[0]
Stem(name) == SubSeq(name, 1, FirstDot(name, 1) - 1)

\* TFile.extension: what follows the last "." of the file name, "" without one
Extension(path) ==
    LET name == FileName(path)
        d == LastDot(name, Len(name)) IN
    IF d = 0 THEN <<>> ELSE SubSeq(name, d + 1, Len(name))

\* String.toLowerCase, on the characters in use
ToLowerCase(s) ==
    [i \in 1 .. Len(s) |->
        CASE s[i] = "P" -> "p" [] s[i] = "N" -> "n" [] s[i] = "G" -> "g" [] OTHER -> s[i]]

\* the alternatives of the regular expression /png|jpg|jpeg|gif|svg|webp/i
ImageWords ==
    { <<"p", "n", "g">>, <<"j", "p", "g">>, <<"j", "p", "e", "g">>, <<"g", "i", "f">>,
      <<"s", "v", "g">>, <<"w", "e", "b", "p">> }

\* String.match of an unanchored pattern: w occurs somewhere in s
Occurs(w, s) == \E i \in 0 .. (Len(s) - Len(w)) : SubSeq(s, i + 1, i + Len(w)) = w

\* file.extension.toLowerCase().match(/png|jpg|jpeg|gif|svg|webp/i) !== null
isImageFile(file) == \E w \in ImageWords : Occurs(w, ToLowerCase(Extension(file)))

\* vault.getAbstractFileByPath(path) as a file that passes isImageFile
ImageAt(path) == path \in localImgs /\ isImageFile(path)

\* faulty variant: the scan of the vault by file name comes first
ResolutionsScanFirst(imagePath, n) ==
    LET rel == <<Parent(n)>> \o <<"/">> \o imagePath
        byName == {f \in localImgs : FileName(f) = FileName(imagePath) /\ isImageFile(f)} IN
    IF byName # {} THEN byName
    ELSE IF ImageAt(imagePath) THEN {imagePath}
    ELSE IF ImageAt(rel) THEN {rel}
    ELSE IF ImageAt(<<"/">> \o imagePath) THEN {<<"/">> \o imagePath}
    ELSE {Null}

\* faulty variant: no scan of the vault after the three lookups by path
ResolutionsNoScan(imagePath, n) ==
    LET rel == <<Parent(n)>> \o <<"/">> \o imagePath IN
    IF ImageAt(imagePath) THEN {imagePath}
    ELSE IF ImageAt(rel) THEN {rel}
    ELSE IF ImageAt(<<"/">> \o imagePath) THEN {<<"/">> \o imagePath}
    ELSE {Null}

\* faulty variant: the last scan compares the names without the test for an image
ResolutionsRawAnyFile(imagePath, n) ==
    LET rel == <<Parent(n)>> \o <<"/">> \o imagePath
        cleanPath == IF FileName(imagePath) = <<>> THEN imagePath ELSE FileName(imagePath)
        byClean == {f \in localImgs : FileName(f) = cleanPath /\ isImageFile(f)}
        byRaw == {f \in localImgs : FileName(f) = imagePath} IN
    IF ImageAt(imagePath) THEN {imagePath}
    ELSE IF ImageAt(rel) THEN {rel}
    ELSE IF ImageAt(<<"/">> \o imagePath) THEN {<<"/">> \o imagePath}
    ELSE IF byClean # {} THEN byClean
    ELSE IF byRaw # {} THEN byRaw
    ELSE {Null}

\* the files findImageFile can return: the path as it is, then relative to the
\* note's folder, then from the root, then the first file of getFiles() that has
\* the cleaned name (any of them: the order of getFiles() is the host's), then the
\* first that has the reference as its name, else null
Resolutions(imagePath, n) ==
    LET rel == <<Parent(n)>> \o <<"/">> \o imagePath
        cleanPath == IF FileName(imagePath) = <<>> THEN imagePath ELSE FileName(imagePath)
        byClean == {f \in localImgs : FileName(f) = cleanPath /\ isImageFile(f)}
        byRaw == {f \in localImgs : FileName(f) = imagePath /\ isImageFile(f)} IN
    IF ImageAt(imagePath) THEN {imagePath}
    ELSE IF ImageAt(rel) THEN {rel}
    ELSE IF ImageAt(<<"/">> \o imagePath) THEN {<<"/">> \o imagePath}
    ELSE IF byClean # {} THEN byClean
    ELSE IF byRaw # {} THEN byRaw
    ELSE {Null}

\* the file a call returns in the vaults of the notes A and B
findImageFile(imagePath, n) == CHOOSE f \in Resolutions(imagePath, n) : TRUE

\* a file of that name exists in the folder
HasFile(imgs, sub, f) == \E x \in imgs : x[1] = sub /\ x[2] = f

\* doBackupNote's full scan: a cloud link whose name without the timestamp
\* matches an image of the note's backup folder becomes a link to that image
\* (by the normalised name, the name, or the part before the first dot)
MatchesBackup(f, name) ==
    /\ f[1] = 0 /\ f[3] = 0
    /\ (Dashed(f[2]) = name \/ f[2] = name \/ Stem(Dashed(f[2])) = Stem(name))

RECURSIVE matchingBackup(_, _)
\* backupImageFiles.find(...): the first listed file that passes any of the three tests
matchingBackup(files, name) ==
    IF files = <<>> THEN Null
    ELSE IF MatchesBackup(FName(0, Head(files), 0), name) THEN Head(files)
    ELSE matchingBackup(Tail(files), name)

FullScan(toks, sub, imgs) ==
    [i \in 1 .. Len(toks) |->
        IF toks[i].k = "url" /\ \E x \in imgs : x[1] = sub /\ MatchesBackup(x[2], toks[i].name)
        THEN LET x == CHOOSE x \in imgs : x[1] = sub /\ MatchesBackup(x[2], toks[i].name)
             IN Tok("bk", x[2][2], 0, 0)
        ELSE toks[i]]

\* ------------------------------------------------------------ task record
IdleTask ==
    [kind |-> "idle", n |-> None, pc |-> "idle",
     snap |-> NoFile, newc |-> <<>>, idx |-> 0, cnt |-> 0, writes |-> 0,
     ec |-> NoFile, cur |-> NoFile, mode |-> None, root |-> None, sub |-> None,
     urls |-> <<>>, fname |-> None,
     waited |-> FALSE, fireVer |-> -1, tid |-> 0, ok |-> {},
     files |-> <<>>, ins |-> {}, failed |-> {}]

\* a handler that has ended: its locals are gone
DoneTask(r) == [IdleTask EXCEPT !.pc = "done"]

\* COSUploader.uploadFile's fileName after the timestamp: processedName "." extension,
\* with extension = name.split(".").pop(), nameWithoutExt = name.substring(0,
\* name.lastIndexOf(".")) and processedName = nameWithoutExt.replace(/\s+/g, "-")
UploadName(name) ==
    LET d == LastDot(name, Len(name))
        extension == SubSeq(name, d + 1, Len(name))
        nameWithoutExt == IF d = 0 THEN <<>> ELSE SubSeq(name, 1, d - 1) IN
    Dashed(nameWithoutExt) \o <<".">> \o extension

\* Date.now() of the upload of reference i by task t
UploadStamp(t, i) == 10 * t + i


Init ==
    /\ backupPath = ""
    /\ unloaded = FALSE
    /\ \E toks \in InitTexts :
          note = [n \in Notes |-> IF n = "A/note.md" THEN Text(toks, 0)
                                                     ELSE Text(<<Tok("txt", <<>>, 0, 0)>>, 0)]
    /\ folders = {BackupFolderPath(n, "") : n \in Notes}
                    \cup {NoteBackupFolderPath(n, "") : n \in Notes}
    /\ shadow = [f \in NoteFolders |-> NoFile]
    /\ backupImgs = {}
    /\ backupLocks = [n \in Notes |-> 0]
    /\ waiters = [t \in Tasks |-> <<>>]
    /\ ready = <<>>
    /\ backupSyncTimers = [n \in Notes |-> 0]
    /\ timers = {}
    /\ task = [t \in Tasks |-> IdleTask]
    /\ nextTask = 1
    /\ triggers = 0
    /\ edits = 0
    /\ envChanges = 0
    /\ issued = <<>>
    /\ cred = [f \in CredFields |-> TRUE]
    /\ uploader = TRUE
    /\ initTimer = FALSE
    /\ editor = <<>>
    /\ puts = <<>>
    /\ notices = <<>>
    /\ unhandled = {}
    /\ localImgs = VaultImages
    /\ found = NoCall
    /\ scanned = NoLookup
    /\ refreshed = NoRefresh
    /\ manager = NoManager

\* ------------------------------------------------------------ try / catch
\* faulty variant: editor-drop awaits uploadFile outside of any try block
CatcherNoDropTry(site) == CASE site = "u_put" -> 0 [] OTHER -> 1

\* the line of the catch clause that receives an error thrown by the await of that
\* name (the innermost enclosing try of the handler or of its callers), 0 if none
Catcher(site) ==
    CASE site = "u_put" -> 182
      [] site = "p_put" -> 253
      [] site = "s_read" -> 495
      [] site = "s_mkroot" -> 349
      [] site = "s_mksub" -> 368
      [] site = "s_readbin" -> 468
      [] site = "s_bkimg" -> 441
      [] site = "s_upload" -> 468
      [] site = "s_write" -> 495
      [] site = "o_read" -> 513
      [] site = "o_mkroot" -> 513
      [] site = "o_mksub" -> 513
      [] site = "o_fetch" -> 991
      [] site = "o_create" -> 991
      [] site = "r_read" -> 578
      [] site = "r_url" -> 563
      [] site = "r_sign" -> 563
      [] site = "r_write" -> 578
      [] site = "d_mkroot" -> 1255
      [] site = "d_mksub" -> 1255
      [] site = "d_read" -> 1251
      [] site = "d_write" -> 1251
      [] OTHER -> 0

\* the awaits or calls of these names have thrown
RaiseAll(sites) == unhandled' = unhandled \cup {x \in sites : Catcher(x) = 0}

\* the await of that name has thrown
Raise(site) == RaiseAll({site})

\* ------------------------------------------------- doBackupNote (pure part)
\* the content is known: full scan, then choose vault.modify or vault.create
DoSubstAndWrite(r, content, sh, imgs) ==
    [r EXCEPT !.cur = Text(FullScan(content.toks, r.sub, imgs), content.ver),
              !.mode = IF sh[r.sub] # NoFile THEN "modify" ELSE "create",
              !.pc = "d_write"]

\* "if (editorContent)": a supplied, non-empty text is used, else the note is read
DoContent(r, sh, imgs) ==
    IF r.ec # NoFile /\ Len(r.ec.toks) > 0
    THEN DoSubstAndWrite(r, r.ec, sh, imgs)
    ELSE [r EXCEPT !.pc = "d_read"]

DoAfterRoot(r, fs, sh, imgs) ==
    IF r.sub \notin fs THEN [r EXCEPT !.pc = "d_mksub"] ELSE DoContent(r, sh, imgs)

\* doBackupNote up to its first await; the paths are computed once, from the settings of that moment
DoBackupNoteStart(r0, bp, fs, sh, imgs) ==
    LET r == [r0 EXCEPT !.root = BackupFolderPath(r0.n, bp),
                        !.sub = NoteBackupFolderPath(r0.n, bp)] IN
    IF r.root \notin fs THEN [r EXCEPT !.pc = "d_mkroot"] ELSE DoAfterRoot(r, fs, sh, imgs)

\* ----------------------------------------------------------- backupNote
\* faulty variant: "if" for "while": a resumed waiter does not test the lock again
LockLoopNoRecheck(t, r) ==
    IF backupLocks[r.n] # 0 /\ r.pc # "b_wait"
    THEN /\ task' = [task EXCEPT ![t] = [r EXCEPT !.pc = "b_wait", !.waited = TRUE]]
         /\ waiters' = [waiters EXCEPT ![backupLocks[r.n]] = Append(@, t)]
         /\ UNCHANGED backupLocks
    ELSE /\ backupLocks' = [backupLocks EXCEPT ![r.n] = t]
         /\ task' = [task EXCEPT ![t] =
                        DoBackupNoteStart(r, backupPath, folders, shadow, backupImgs)]
         /\ UNCHANGED waiters

\* faulty variant: the wait loop is missing: the lock entry is overwritten
LockLoopNoWait(t, r) ==
    /\ backupLocks' = [backupLocks EXCEPT ![r.n] = t]
    /\ task' = [task EXCEPT ![t] =
                   DoBackupNoteStart(r, backupPath, folders, shadow, backupImgs)]
    /\ UNCHANGED waiters

\* the while loop on backupLocks, and what follows it up to the first await
LockLoop(t, r) ==
    IF backupLocks[r.n] # 0
    THEN /\ task' = [task EXCEPT ![t] = [r EXCEPT !.pc = "b_wait", !.waited = TRUE]]
         /\ waiters' = [waiters EXCEPT ![backupLocks[r.n]] = Append(@, t)]
         /\ UNCHANGED backupLocks
    ELSE /\ backupLocks' = [backupLocks EXCEPT ![r.n] = t]
         /\ task' = [task EXCEPT ![t] =
                        DoBackupNoteStart(r, backupPath, folders, shadow, backupImgs)]
         /\ UNCHANGED waiters

BackupNoteCall(t, r) ==
    /\ issued' = Append(issued, t)
    /\ LockLoop(t, r)

\* faulty variant: the finally block is missing: the entry is never deleted
ReleaseNoDelete(t, r) ==
    /\ UNCHANGED backupLocks
    /\ ready' = ready \o waiters[t]
    /\ issued' = SelectSeq(issued, LAMBDA u : u # t)
    /\ waiters' = [waiters EXCEPT ![t] = <<>>]
    /\ task' = [task EXCEPT ![t] = DoneTask(r)]

\* doBackupNote has returned: resolveLock(), then backupLocks.delete(lockKey)
Release(t, r) ==
    /\ backupLocks' = [backupLocks EXCEPT ![r.n] = 0]
    /\ ready' = ready \o waiters[t]
    /\ issued' = SelectSeq(issued, LAMBDA u : u # t)
    /\ waiters' = [waiters EXCEPT ![t] = <<>>]
    /\ task' = [task EXCEPT ![t] = DoneTask(r)]

\* a reaction of a settled lockPromise runs: the waiter re-tests the lock
Resume ==
    /\ ready # <<>>
    /\ LET t == Head(ready) IN LockLoop(t, task[t])
    /\ ready' = Tail(ready)
    /\ UNCHANGED <<backupPath, unloaded, note, folders, shadow, backupImgs,
                   backupSyncTimers, timers, nextTask, triggers, edits, envChanges,
                   issued>>
    /\ UNCHANGED upVars
    /\ UNCHANGED resVars
    /\ UNCHANGED unhandled

\* await createFolder(backupFolderPath) of doBackupNote completes
DoMkRoot(t) ==
    /\ ready = <<>>
    /\ task[t].pc = "d_mkroot"
    /\ LET r == task[t] IN
       \/ /\ r.root \in folders          \* "already exists": caught, goes on
          /\ task' = [task EXCEPT ![t] = DoAfterRoot(r, folders, shadow, backupImgs)]
          /\ UNCHANGED <<folders, backupLocks, waiters, ready, issued, unhandled>>
       \/ /\ r.root \notin folders
          /\ folders' = folders \cup {r.root}
          /\ task' = [task EXCEPT ![t] =
                         DoAfterRoot(r, folders', shadow, backupImgs)]
          /\ UNCHANGED <<backupLocks, waiters, ready, issued, unhandled>>
       \/ /\ r.root \notin folders       \* another error: outer catch
          /\ Release(t, r)
          /\ Raise("d_mkroot")
          /\ UNCHANGED folders
    /\ UNCHANGED <<backupPath, unloaded, note, shadow, backupImgs, backupSyncTimers,
                   timers, nextTask, triggers, edits, envChanges>>
    /\ UNCHANGED upVars
    /\ UNCHANGED resVars

\* await createFolder(noteBackupFolderPath) of doBackupNote completes
DoMkSub(t) ==
    /\ ready = <<>>
    /\ task[t].pc = "d_mksub"
    /\ LET r == task[t] IN
       \/ /\ r.sub \in folders
          /\ task' = [task EXCEPT ![t] = DoContent(r, shadow, backupImgs)]
          /\ UNCHANGED <<folders, backupLocks, waiters, ready, issued, unhandled>>
       \/ /\ r.sub \notin folders
          /\ folders' = folders \cup {r.sub}
          /\ task' = [task EXCEPT ![t] =
                         DoContent(r, shadow, backupImgs)]
          /\ UNCHANGED <<backupLocks, waiters, ready, issued, unhandled>>
       \/ /\ r.sub \notin folders         \* another error: outer catch
          /\ Release(t, r)
          /\ Raise("d_mksub")
          /\ UNCHANGED folders
    /\ UNCHANGED <<backupPath, unloaded, note, shadow, backupImgs, backupSyncTimers,
                   timers, nextTask, triggers, edits, envChanges>>
    /\ UNCHANGED upVars
    /\ UNCHANGED resVars

\* faulty variant: the text is taken from the existing shadow note, not read from the note
DoReadShadow(t) ==
    /\ ready = <<>>
    /\ task[t].pc = "d_read"
    /\ task' = [task EXCEPT ![t] = DoSubstAndWrite(task[t], shadow[task[t].sub], shadow, backupImgs)]
    /\ UNCHANGED <<backupPath, unloaded, note, folders, shadow, backupImgs, backupLocks,
                   waiters, ready, backupSyncTimers, timers, nextTask, triggers, edits,
                   envChanges, issued>>
    /\ UNCHANGED upVars
    /\ UNCHANGED resVars
    /\ UNCHANGED unhandled

\* the 300 ms pause and await vault.read(activeFile) complete: the note as it is now
DoRead(t) ==
    /\ ready = <<>>
    /\ task[t].pc = "d_read"
    /\ \/ /\ task' = [task EXCEPT ![t] =
                         DoSubstAndWrite(task[t], note[task[t].n], shadow, backupImgs)]
          /\ UNCHANGED <<backupLocks, waiters, ready, issued, unhandled>>
       \/ /\ Release(t, task[t])                     \* read error: inner catch
          /\ Raise("d_read")
    /\ UNCHANGED <<backupPath, unloaded, note, folders, shadow, backupImgs,
                   backupSyncTimers, timers, nextTask, triggers, edits, envChanges>>
    /\ UNCHANGED upVars
    /\ UNCHANGED resVars

\* the shadow note's file name, `${activeFile.basename}-backup.md`, in its parts
NoteBackupFileName(n) == <<Basename(n), "-backup", ".md">>

\* file.name.endsWith("-backup.md")
EndsWithBackupMd(name) ==
    Len(name) >= 2 /\ SubSeq(name, Len(name) - 1, Len(name)) = <<"-backup", ".md">>

\* faulty variant: the test for the backup file's name is missing and the write of
\* the shadow note is taken for a modification of the note
ShadowModifyListenerNoSkip(n) ==
    /\ timers' = (timers \ {<<n, backupSyncTimers[n]>>}) \cup {<<n, note[n].ver + 1>>}
    /\ backupSyncTimers' = [backupSyncTimers EXCEPT ![n] = note[n].ver + 1]

\* the 'modify' listener called for the shadow note of n, which vault.modify has
\* written: an md file whose name ends with "-backup.md", so the listener returns
ShadowModifyListener(n) ==
    /\ EndsWithBackupMd(NoteBackupFileName(n))
    /\ UNCHANGED <<timers, backupSyncTimers>>

\* await vault.modify / vault.create of the shadow note completes
DoWrite(t) ==
    /\ ready = <<>>
    /\ task[t].pc = "d_write"
    /\ LET r == task[t] IN
       \/ /\ r.sub \in folders           \* written
          /\ r.mode = "modify" => shadow[r.sub] # NoFile
          /\ r.mode = "create" => shadow[r.sub] = NoFile
          /\ shadow' = [shadow EXCEPT ![r.sub] = r.cur]
          /\ IF r.mode = "modify" THEN ShadowModifyListener(r.n)
                                  ELSE UNCHANGED <<timers, backupSyncTimers>>
          /\ Release(t, r)
          /\ UNCHANGED unhandled
       \/ /\ r.mode = "create"           \* "already exists": looked up again and modified
          /\ r.sub \in folders
          /\ shadow[r.sub] # NoFile
          /\ task' = [task EXCEPT ![t] = [r EXCEPT !.mode = "modify"]]
          /\ UNCHANGED <<shadow, backupLocks, waiters, ready, issued, unhandled>>
          /\ UNCHANGED <<timers, backupSyncTimers>>
       \/ /\ Release(t, r)               \* the write failed: inner catch
          /\ Raise("d_write")
          /\ UNCHANGED shadow
          /\ UNCHANGED <<timers, backupSyncTimers>>
    /\ UNCHANGED <<backupPath, unloaded, note, folders, backupImgs,
                   nextTask, triggers, edits, envChanges>>
    /\ UNCHANGED upVars
    /\ UNCHANGED resVars


\* ------------------------------------------------ vault 'modify' listener
\* faulty variant: clearTimeout(existingTimer) is missing
ModifyListenerNoClear(n, id) ==
    IF unloaded \/ NoteBackupFolderPath(n, backupPath) \notin folders
    THEN UNCHANGED <<timers, backupSyncTimers>>
    ELSE /\ timers' = timers \cup {<<n, id>>}
         /\ backupSyncTimers' = [backupSyncTimers EXCEPT ![n] = id]

\* runs for every modification of a note while the plugin is loaded; id names the new timer
ModifyListener(n, id) ==
    IF unloaded \/ NoteBackupFolderPath(n, backupPath) \notin folders
    THEN UNCHANGED <<timers, backupSyncTimers>>
    ELSE /\ timers' = (timers \ {<<n, backupSyncTimers[n]>>}) \cup {<<n, id>>}
         /\ backupSyncTimers' = [backupSyncTimers EXCEPT ![n] = id]

\* the user edits a note (the host then reports 'modify')
UserEdit(n) ==
    /\ ready = <<>>
    /\ edits < MaxEdits
    /\ edits' = edits + 1
    /\ note' = [note EXCEPT ![n] = Text(Append(@.toks, Tok("txt", <<>>, edits + 1, 0)), @.ver + 1)]
    /\ ModifyListener(n, note[n].ver + 1)
    /\ UNCHANGED <<backupPath, unloaded, folders, shadow, backupImgs, backupLocks,
                   waiters, ready, task, nextTask, triggers, envChanges, issued>>
    /\ UNCHANGED upVars
    /\ UNCHANGED resVars
    /\ UNCHANGED unhandled

\* the timer callback: backupSyncTimers.delete(file.path), then backupNote(file)
TimerFire(n, id) ==
    /\ ready = <<>>
    /\ <<n, id>> \in timers
    /\ nextTask <= MaxTasks
    /\ timers' = timers \ {<<n, id>>}
    /\ backupSyncTimers' = [backupSyncTimers EXCEPT ![n] = 0]
    /\ nextTask' = nextTask + 1
    /\ BackupNoteCall(nextTask, [IdleTask EXCEPT !.kind = "auto", !.n = n,
                                                 !.fireVer = note[n].ver, !.tid = id])
    /\ UNCHANGED <<backupPath, unloaded, note, folders, shadow, backupImgs, ready,
                   triggers, edits, envChanges>>
    /\ UNCHANGED upVars
    /\ UNCHANGED resVars
    /\ UNCHANGED unhandled

\* the user changes the backup path in the settings tab
ChangeSettings(bp) ==
    /\ ready = <<>>
    /\ bp # backupPath
    /\ envChanges < MaxEnvChanges
    /\ envChanges' = envChanges + 1
    /\ backupPath' = bp
    /\ UNCHANGED <<unloaded, note, folders, shadow, backupImgs, backupLocks, waiters,
                   ready, backupSyncTimers, timers, task, nextTask, triggers, edits,
                   issued>>
    /\ UNCHANGED upVars
    /\ UNCHANGED resVars
    /\ UNCHANGED unhandled

\* the user removes a note's backup folder, with the files in it
RemoveFolder(f) ==
    /\ ready = <<>>
    /\ f \in folders
    /\ envChanges < MaxEnvChanges
    /\ envChanges' = envChanges + 1
    /\ folders' = folders \ {f}
    /\ shadow' = [shadow EXCEPT ![f] = NoFile]
    /\ backupImgs' = {x \in backupImgs : x[1] # f}
    /\ UNCHANGED <<backupPath, unloaded, note, backupLocks, waiters, ready,
                   backupSyncTimers, timers, task, nextTask, triggers, edits, issued>>
    /\ UNCHANGED upVars
    /\ UNCHANGED resVars
    /\ UNCHANGED unhandled

\* faulty variant: backupSyncTimers.clear() without clearTimeout
onunloadNoClear ==
    /\ ready = <<>>
    /\ ~unloaded
    /\ unloaded' = TRUE
    /\ UNCHANGED timers
    /\ backupSyncTimers' = [n \in Notes |-> 0]
    /\ UNCHANGED <<backupPath, note, folders, shadow, backupImgs, backupLocks, waiters,
                   ready, task, nextTask, triggers, edits, envChanges, issued>>
    /\ UNCHANGED upVars
    /\ UNCHANGED resVars
    /\ UNCHANGED unhandled

\* onunload: clearTimeout of every stored timer, backupSyncTimers.clear()
onunload ==
    /\ ready = <<>>
    /\ ~unloaded
    /\ unloaded' = TRUE
    /\ timers' = timers \ {<<n, backupSyncTimers[n]>> : n \in Notes}
    /\ backupSyncTimers' = [n \in Notes |-> 0]
    /\ UNCHANGED <<backupPath, note, folders, shadow, backupImgs, backupLocks, waiters,
                   ready, task, nextTask, triggers, edits, envChanges, issued>>
    /\ UNCHANGED upVars
    /\ UNCHANGED resVars
    /\ UNCHANGED unhandled


\* ------------------------------------------- bulk scan ("上传本地图片" onClick)
RECURSIVE NextResolvable(_, _, _)
\* the loop skips, without suspending, the references findImageFile does not resolve
NextResolvable(refs, n, i) ==
    IF i > Len(refs) THEN i
    ELSE IF findImageFile(refs[i].name, n) # Null THEN i
    ELSE NextResolvable(refs, n, i + 1)

\* faulty variant: vault.modify inside the loop, after the first successful upload
ScanContinueWriteEach(t, r) ==
    LET refs == AllLocalImages(r.snap.toks)
        j == NextResolvable(refs, r.n, r.idx) IN
    IF r.cnt > 0
    THEN /\ task' = [task EXCEPT ![t] = [r EXCEPT !.idx = j, !.pc = "s_write"]]
         /\ UNCHANGED <<backupLocks, waiters, issued>>
    ELSE IF j <= Len(refs)
    THEN /\ task' = [task EXCEPT ![t] = [r EXCEPT !.idx = j, !.pc = "s_readbin"]]
         /\ UNCHANGED <<backupLocks, waiters, issued>>
    ELSE BackupNoteCall(t, [r EXCEPT !.idx = j])

\* the for loop from reference r.idx on, up to the next await; after the loop the
\* note is written if an upload succeeded, and backupNote(file) is called
ScanContinue(t, r) ==
    LET refs == AllLocalImages(r.snap.toks)
        j == NextResolvable(refs, r.n, r.idx) IN
    IF j <= Len(refs)
    THEN /\ task' = [task EXCEPT ![t] = [r EXCEPT !.idx = j, !.pc = "s_readbin"]]
         /\ UNCHANGED <<backupLocks, waiters, issued>>
    ELSE IF r.cnt > 0
    THEN /\ task' = [task EXCEPT ![t] = [r EXCEPT !.idx = j, !.pc = "s_write"]]
         /\ UNCHANGED <<backupLocks, waiters, issued>>
    ELSE BackupNoteCall(t, [r EXCEPT !.idx = j])

\* the handler ends without calling backupNote (return, or the outer catch)
ScanEnd(t, r) ==
    /\ task' = [task EXCEPT ![t] = DoneTask(r)]
    /\ UNCHANGED <<backupLocks, waiters, issued>>

ScanAfterRoot(t, r, fs) ==
    IF r.sub \notin fs
    THEN /\ task' = [task EXCEPT ![t] = [r EXCEPT !.pc = "s_mksub"]]
         /\ UNCHANGED <<backupLocks, waiters, issued>>
    ELSE ScanContinue(t, r)

\* the user clicks the menu item on a note: the handler runs up to await vault.read
StartScan(n) ==
    /\ ready = <<>>
    /\ ~unloaded
    /\ uploader
    /\ triggers < MaxTriggers
    /\ nextTask <= MaxTasks
    /\ triggers' = triggers + 1
    /\ nextTask' = nextTask + 1
    /\ task' = [task EXCEPT ![nextTask] = [IdleTask EXCEPT !.kind = "scan", !.n = n, !.pc = "s_read"]]
    /\ UNCHANGED <<backupPath, unloaded, note, folders, shadow, backupImgs, backupLocks,
                   waiters, ready, backupSyncTimers, timers, edits, envChanges, issued>>
    /\ UNCHANGED upVars
    /\ UNCHANGED resVars
    /\ UNCHANGED unhandled

\* "未找到本地图片": the handler returns; what it read stays on record
ScanNoLocal(t, r) ==
    /\ task' = [task EXCEPT ![t] = [IdleTask EXCEPT !.pc = "done", !.kind = "scan",
                                                    !.n = r.n, !.snap = r.snap]]
    /\ UNCHANGED <<backupLocks, waiters, issued>>

\* faulty variant: the return for a note without local images is missing
ScanParsedNoReturn(t, r) ==
    IF r.root \notin folders
    THEN /\ task' = [task EXCEPT ![t] = [r EXCEPT !.pc = "s_mkroot"]]
         /\ UNCHANGED <<backupLocks, waiters, issued>>
    ELSE ScanAfterRoot(t, r, folders)

\* the references are parsed, the backup folders are looked up
ScanParsed(t, r) ==
    IF Len(AllLocalImages(r.snap.toks)) = 0 THEN ScanNoLocal(t, r)
    ELSE IF r.root \notin folders
    THEN /\ task' = [task EXCEPT ![t] = [r EXCEPT !.pc = "s_mkroot"]]
         /\ UNCHANGED <<backupLocks, waiters, issued>>
    ELSE ScanAfterRoot(t, r, folders)

\* vault.read completes
ScanRead(t) ==
    /\ ready = <<>>
    /\ task[t].pc = "s_read"
    /\ \/ /\ ScanParsed(t, [task[t] EXCEPT
                    !.snap = note[task[t].n], !.newc = note[task[t].n].toks,
                    !.idx = 1, !.cnt = 0, !.ok = {},
                    !.root = BackupFolderPath(task[t].n, backupPath),
                    !.sub = NoteBackupFolderPath(task[t].n, backupPath)])
          /\ UNCHANGED unhandled
       \/ /\ ScanEnd(t, task[t])                     \* read error: outer catch
          /\ Raise("s_read")
    /\ UNCHANGED <<backupPath, unloaded, note, folders, shadow, backupImgs, ready,
                   backupSyncTimers, timers, nextTask, triggers, edits, envChanges>>
    /\ UNCHANGED upVars
    /\ UNCHANGED resVars

\* await createFolder(backupFolderPath) completes; any error ends the handler
ScanMkRoot(t) ==
    /\ ready = <<>>
    /\ task[t].pc = "s_mkroot"
    /\ LET r == task[t] IN
       \/ /\ r.root \notin folders
          /\ folders' = folders \cup {r.root}
          /\ ScanAfterRoot(t, r, folders')
          /\ UNCHANGED unhandled
       \/ /\ ScanEnd(t, r)
          /\ Raise("s_mkroot")
          /\ UNCHANGED folders
    /\ UNCHANGED <<backupPath, unloaded, note, shadow, backupImgs, ready,
                   backupSyncTimers, timers, nextTask, triggers, edits, envChanges>>
    /\ UNCHANGED upVars
    /\ UNCHANGED resVars

\* await createFolder(noteBackupFolderPath) completes; any error ends the handler
ScanMkSub(t) ==
    /\ ready = <<>>
    /\ task[t].pc = "s_mksub"
    /\ LET r == task[t] IN
       \/ /\ r.sub \notin folders
          /\ folders' = folders \cup {r.sub}
          /\ ScanContinue(t, r)
          /\ UNCHANGED unhandled
       \/ /\ ScanEnd(t, r)
          /\ Raise("s_mksub")
          /\ UNCHANGED folders
    /\ UNCHANGED <<backupPath, unloaded, note, shadow, backupImgs, ready,
                   backupSyncTimers, timers, nextTask, triggers, edits, envChanges>>
    /\ UNCHANGED upVars
    /\ UNCHANGED resVars

\* await vault.readBinary(imageFile) completes
ScanReadBin(t) ==
    /\ ready = <<>>
    /\ task[t].pc = "s_readbin"
    /\ LET r == task[t]
           file == findImageFile(AllLocalImages(r.snap.toks)[r.idx].name, r.n) IN
       \/ /\ task' = [task EXCEPT ![t] =
                [r EXCEPT !.pc = IF HasFile(backupImgs, r.sub, FName(0, FileName(file), 0))
                                 THEN "s_upload" ELSE "s_bkimg"]]
          /\ UNCHANGED <<backupLocks, waiters, issued, unhandled>>
       \/ /\ ScanContinue(t, [r EXCEPT !.idx = @ + 1])  \* read error: catch, next reference
          /\ Raise("s_readbin")
    /\ UNCHANGED <<backupPath, unloaded, note, folders, shadow, backupImgs, ready,
                   backupSyncTimers, timers, nextTask, triggers, edits, envChanges>>
    /\ UNCHANGED upVars
    /\ UNCHANGED resVars

\* await vault.createBinary(backupImagePath) completes; an error is only logged
ScanBkImg(t) ==
    /\ ready = <<>>
    /\ task[t].pc = "s_bkimg"
    /\ LET r == task[t]
           file == findImageFile(AllLocalImages(r.snap.toks)[r.idx].name, r.n)
           f == FName(0, FileName(file), 0) IN
       \/ /\ r.sub \in folders
          /\ ~HasFile(backupImgs, r.sub, f)
          /\ backupImgs' = backupImgs \cup {<<r.sub, f, file>>}
          /\ UNCHANGED unhandled
       \/ /\ UNCHANGED backupImgs                       \* error: inner catch, logged
          /\ Raise("s_bkimg")
    /\ task' = [task EXCEPT ![t].pc = "s_upload"]
    /\ UNCHANGED <<backupPath, unloaded, note, folders, shadow, backupLocks, waiters,
                   ready, backupSyncTimers, timers, nextTask, triggers, edits,
                   envChanges, issued>>
    /\ UNCHANGED upVars
    /\ UNCHANGED resVars

\* await uploader.uploadFile(imageToUpload) completes (putObject and the signed URL)
ScanUpload(t) ==
    /\ ready = <<>>
    /\ task[t].pc = "s_upload"
    /\ LET r == task[t]
           ref == AllLocalImages(r.snap.toks)[r.idx] IN
       \/ /\ ScanContinue(t, [r EXCEPT
                !.newc = ReplaceFirst(@, ref, Tok("url", UploadName(NoWs(FileName(findImageFile(ref.name, r.n)))), UploadStamp(t, r.idx), 0)),
                !.cnt = @ + 1, !.ok = @ \cup {r.idx}, !.idx = @ + 1])
          /\ UNCHANGED unhandled
       \/ /\ ScanContinue(t, [r EXCEPT !.idx = @ + 1])   \* upload error: catch, next reference
          /\ Raise("s_upload")
    /\ UNCHANGED <<backupPath, unloaded, note, folders, shadow, backupImgs, ready,
                   backupSyncTimers, timers, nextTask, triggers, edits, envChanges>>
    /\ UNCHANGED upVars
    /\ UNCHANGED resVars

\* await vault.modify(file, newContent) completes; then backupNote(file)
ScanWrite(t) ==
    /\ ready = <<>>
    /\ task[t].pc = "s_write"
    /\ LET r == task[t] IN
       \/ /\ note' = [note EXCEPT ![r.n] = Text(r.newc, @.ver + 1)]
          /\ ModifyListener(r.n, note[r.n].ver + 1)
          /\ BackupNoteCall(t, [r EXCEPT !.writes = @ + 1])
          /\ UNCHANGED unhandled
       \/ /\ ScanEnd(t, r)                             \* write error: outer catch
          /\ Raise("s_write")
          /\ UNCHANGED <<note, timers, backupSyncTimers>>
    /\ UNCHANGED <<backupPath, unloaded, folders, shadow, backupImgs, ready, nextTask,
                   triggers, edits, envChanges>>
    /\ UNCHANGED upVars
    /\ UNCHANGED resVars

\* --------------------------------- online note backup (backupOnlineNote)
IsRemoteMd(tok) == tok.k = "url"

RECURSIVE FreeSuffix(_, _, _, _, _)
\* the "while (getAbstractFileByPath(backupImagePath))" loop: the first free " (counter)"
FreeSuffix(sub, ts, name, c, imgs) ==
    IF ~HasFile(imgs, sub, FName(ts, name, c)) THEN c
    ELSE FreeSuffix(sub, ts, name, c + 1, imgs)

RECURSIVE NextUnmapped(_, _, _)
\* the loop skips the matches whose URL is in urlToBackupName
NextUnmapped(ms, urls, i) ==
    IF i > Len(ms) THEN i
    ELSE IF \E k \in 1 .. Len(urls) : urls[k][1] = ms[i].name /\ urls[k][2] = ms[i].ts
    THEN NextUnmapped(ms, urls, i + 1)
    ELSE i

\* every ![alt](url) of a downloaded URL becomes ![alt](./backupName)
ReplaceDownloaded(toks, urls) ==
    [i \in 1 .. Len(toks) |->
        IF toks[i].k = "url"
           /\ \E k \in 1 .. Len(urls) : urls[k][1] = toks[i].name /\ urls[k][2] = toks[i].ts
        THEN LET k == CHOOSE k \in 1 .. Len(urls) :
                          urls[k][1] = toks[i].name /\ urls[k][2] = toks[i].ts
             IN Tok("bk", toks[i].name, toks[i].ts, urls[k][3])
        ELSE toks[i]]

\* the for loop from match r.idx on, up to the next await; after the loop
\* backupNote(activeFile, null, undefined, newContent) if a download succeeded
OnlineContinue(t, r) ==
    LET ms == SelectSeq(r.snap.toks, IsRemoteMd)
        j == NextUnmapped(ms, r.urls, r.idx) IN
    IF j <= Len(ms)
    THEN /\ task' = [task EXCEPT ![t] =
                [r EXCEPT !.idx = j, !.pc = "o_fetch",
                          !.fname = FName(ms[j].ts, ms[j].name,
                                          FreeSuffix(r.sub, ms[j].ts, ms[j].name, 0, backupImgs))]]
         /\ UNCHANGED <<backupLocks, waiters, issued>>
    ELSE IF r.cnt > 0
    THEN BackupNoteCall(t, [r EXCEPT !.idx = j,
                                     !.ec = Text(ReplaceDownloaded(r.snap.toks, r.urls), r.snap.ver)])
    ELSE ScanEnd(t, r)

OnlineAfterRoot(t, r, fs) ==
    IF r.sub \notin fs
    THEN /\ task' = [task EXCEPT ![t] = [r EXCEPT !.pc = "o_mksub"]]
         /\ UNCHANGED <<backupLocks, waiters, issued>>
    ELSE OnlineContinue(t, r)

\* the user clicks "在线笔记备份": the handler runs up to await vault.read
StartOnline(n) ==
    /\ ready = <<>>
    /\ ~unloaded
    /\ uploader
    /\ triggers < MaxTriggers
    /\ nextTask <= MaxTasks
    /\ triggers' = triggers + 1
    /\ nextTask' = nextTask + 1
    /\ task' = [task EXCEPT ![nextTask] = [IdleTask EXCEPT !.kind = "online", !.n = n, !.pc = "o_read"]]
    /\ UNCHANGED <<backupPath, unloaded, note, folders, shadow, backupImgs, backupLocks,
                   waiters, ready, backupSyncTimers, timers, edits, envChanges, issued>>
    /\ UNCHANGED upVars
    /\ UNCHANGED resVars
    /\ UNCHANGED unhandled

\* vault.read completes: the remote links are parsed, the backup folders are looked up
OnlineRead(t) ==
    /\ ready = <<>>
    /\ task[t].pc = "o_read"
    /\ LET r == [task[t] EXCEPT !.snap = note[task[t].n], !.idx = 1, !.cnt = 0,
                                !.root = BackupFolderPath(task[t].n, backupPath),
                                !.sub = NoteBackupFolderPath(task[t].n, backupPath)] IN
       \/ /\ IF Len(SelectSeq(r.snap.toks, IsRemoteMd)) = 0 THEN ScanEnd(t, r)
             ELSE IF r.root \notin folders
             THEN /\ task' = [task EXCEPT ![t] = [r EXCEPT !.pc = "o_mkroot"]]
                  /\ UNCHANGED <<backupLocks, waiters, issued>>
             ELSE OnlineAfterRoot(t, r, folders)
          /\ UNCHANGED unhandled
       \/ /\ ScanEnd(t, task[t])                 \* read error: the menu item's catch
          /\ Raise("o_read")
    /\ UNCHANGED <<backupPath, unloaded, note, folders, shadow, backupImgs, ready,
                   backupSyncTimers, timers, nextTask, triggers, edits, envChanges>>
    /\ UNCHANGED upVars
    /\ UNCHANGED resVars

\* await createFolder(backupFolderPath) completes; any error leaves backupOnlineNote
OnlineMkRoot(t) ==
    /\ ready = <<>>
    /\ task[t].pc = "o_mkroot"
    /\ LET r == task[t] IN
       \/ /\ r.root \notin folders
          /\ folders' = folders \cup {r.root}
          /\ OnlineAfterRoot(t, r, folders')
          /\ UNCHANGED unhandled
       \/ /\ ScanEnd(t, r)
          /\ Raise("o_mkroot")
          /\ UNCHANGED folders
    /\ UNCHANGED <<backupPath, unloaded, note, shadow, backupImgs, ready,
                   backupSyncTimers, timers, nextTask, triggers, edits, envChanges>>
    /\ UNCHANGED upVars
    /\ UNCHANGED resVars

\* await createFolder(noteBackupFolderPath) completes; any error leaves backupOnlineNote
OnlineMkSub(t) ==
    /\ ready = <<>>
    /\ task[t].pc = "o_mksub"
    /\ LET r == task[t] IN
       \/ /\ r.sub \notin folders
          /\ folders' = folders \cup {r.sub}
          /\ OnlineContinue(t, r)
          /\ UNCHANGED unhandled
       \/ /\ ScanEnd(t, r)
          /\ Raise("o_mksub")
          /\ UNCHANGED folders
    /\ UNCHANGED <<backupPath, unloaded, note, shadow, backupImgs, ready,
                   backupSyncTimers, timers, nextTask, triggers, edits, envChanges>>
    /\ UNCHANGED upVars
    /\ UNCHANGED resVars

\* await fetch(imageUrl) and response.arrayBuffer() complete
OnlineFetch(t) ==
    /\ ready = <<>>
    /\ task[t].pc = "o_fetch"
    /\ LET r == task[t] IN
       \/ /\ task' = [task EXCEPT ![t] = [r EXCEPT !.pc = "o_create"]]
          /\ UNCHANGED <<backupLocks, waiters, issued, unhandled>>
       \/ /\ OnlineContinue(t, [r EXCEPT !.idx = @ + 1])   \* download error: catch, next match
          /\ Raise("o_fetch")
    /\ UNCHANGED <<backupPath, unloaded, note, folders, shadow, backupImgs, ready,
                   backupSyncTimers, timers, nextTask, triggers, edits, envChanges>>
    /\ UNCHANGED upVars
    /\ UNCHANGED resVars

\* await vault.createBinary(backupImagePath, buffer) completes
OnlineCreate(t) ==
    /\ ready = <<>>
    /\ task[t].pc = "o_create"
    /\ LET r == task[t]
           m == SelectSeq(r.snap.toks, IsRemoteMd)[r.idx] IN
       \/ /\ r.sub \in folders
          /\ ~HasFile(backupImgs, r.sub, r.fname)
          /\ backupImgs' = backupImgs \cup {<<r.sub, r.fname, <<"url", m.name, m.ts>>>>}
          /\ OnlineContinue(t, [r EXCEPT !.urls = Append(@, <<m.name, m.ts, r.fname[3]>>),
                                         !.cnt = @ + 1, !.idx = @ + 1])
          /\ UNCHANGED unhandled
       \/ /\ UNCHANGED backupImgs                       \* create error: catch, next match
          /\ OnlineContinue(t, [r EXCEPT !.idx = @ + 1])
          /\ Raise("o_create")
    /\ UNCHANGED <<backupPath, unloaded, note, folders, shadow, ready, backupSyncTimers,
                   timers, nextTask, triggers, edits, envChanges>>
    /\ UNCHANGED upVars
    /\ UNCHANGED resVars

Next ==
    \/ Resume
    \/ \E t \in Tasks : DoMkRoot(t)
    \/ \E t \in Tasks : DoMkSub(t)
    \/ \E t \in Tasks : DoRead(t)
    \/ \E t \in Tasks : DoWrite(t)
    \/ \E n \in Notes : UserEdit(n)
    \/ \E n \in Notes, id \in 1 .. (MaxEdits + MaxTriggers) : TimerFire(n, id)
    \/ \E bp \in BackupPaths : ChangeSettings(bp)
    \/ \E f \in NoteFolders : RemoveFolder(f)
    \/ onunload
    \/ \E n \in Notes : StartScan(n)
    \/ \E t \in Tasks : ScanRead(t)
    \/ \E t \in Tasks : ScanMkRoot(t)
    \/ \E t \in Tasks : ScanMkSub(t)
    \/ \E t \in Tasks : ScanReadBin(t)
    \/ \E t \in Tasks : ScanBkImg(t)
    \/ \E t \in Tasks : ScanUpload(t)
    \/ \E t \in Tasks : ScanWrite(t)
    \/ \E n \in Notes : StartOnline(n)
    \/ \E t \in Tasks : OnlineRead(t)
    \/ \E t \in Tasks : OnlineMkRoot(t)
    \/ \E t \in Tasks : OnlineMkSub(t)
    \/ \E t \in Tasks : OnlineFetch(t)
    \/ \E t \in Tasks : OnlineCreate(t)

Spec == Init /\ [][Next]_vars

\* ------------------------------------------- the bulk scan on more notes
\* texts of note A: a repeated reference, an unresolved one and a markdown one, only
\* a cloud link (what a scan that uploaded everything leaves), two images of one
\* name in different folders, an image whose name has whitespace, a markdown
\* reference before a wiki one, an image whose name begins with "http"
ScanTexts ==
    { <<Tok("wiki", ImgA, 0, 0), Tok("wiki", ImgA, 0, 0)>>,
      <<Tok("wiki", ImgX, 0, 0), Tok("md", ImgB, 0, 0)>>,
      <<Tok("md", ImgB, 0, 0), Tok("wiki", ImgA, 0, 0)>>,
      <<Tok("wiki", ImgH, 0, 0)>>,
      <<Tok("url", ImgA, 1, 0)>>,
      <<Tok("wiki", ImgPA, 0, 0), Tok("wiki", ImgQA, 0, 0)>>,
      <<Tok("wiki", ImgSp, 0, 0)>> }

\* the notes have their backup folders, or only the root folders, or none
ScanFolders ==
    { {BackupFolderPath(n, "") : n \in Notes} \cup {NoteBackupFolderPath(n, "") : n \in Notes},
      {BackupFolderPath(n, "") : n \in Notes},
      {} }

ScanInit ==
    /\ backupPath = ""
    /\ unloaded = FALSE
    /\ \E toks \in ScanTexts :
          note = [n \in Notes |-> IF n = "A/note.md" THEN Text(toks, 0)
                                                     ELSE Text(<<Tok("txt", <<>>, 0, 0)>>, 0)]
    /\ folders \in ScanFolders
    /\ shadow = [f \in NoteFolders |-> NoFile]
    /\ backupImgs = {}
    /\ backupLocks = [n \in Notes |-> 0]
    /\ waiters = [t \in Tasks |-> <<>>]
    /\ ready = <<>>
    /\ backupSyncTimers = [n \in Notes |-> 0]
    /\ timers = {}
    /\ task = [t \in Tasks |-> IdleTask]
    /\ nextTask = 1
    /\ triggers = 0
    /\ edits = 0
    /\ envChanges = 0
    /\ issued = <<>>
    /\ cred = [f \in CredFields |-> TRUE]
    /\ uploader = TRUE
    /\ initTimer = FALSE
    /\ editor = <<>>
    /\ puts = <<>>
    /\ notices = <<>>
    /\ unhandled = {}
    /\ localImgs = VaultImages
    /\ found = NoCall
    /\ scanned = NoLookup
    /\ refreshed = NoRefresh
    /\ manager = NoManager

\* the bulk scan, the auto-backup its write schedules, and their backupNote
ScanNext ==
    \/ Resume
    \/ \E t \in Tasks : DoRead(t)
    \/ \E t \in Tasks : DoWrite(t)
    \/ \E n \in Notes : \E id \in 1 .. (MaxEdits + MaxTriggers) : TimerFire(n, id)
    \/ \E n \in Notes : StartScan(n)
    \/ \E t \in Tasks : ScanRead(t)
    \/ \E t \in Tasks : ScanMkRoot(t)
    \/ \E t \in Tasks : ScanMkSub(t)
    \/ \E t \in Tasks : ScanReadBin(t)
    \/ \E t \in Tasks : ScanBkImg(t)
    \/ \E t \in Tasks : ScanUpload(t)
    \/ \E t \in Tasks : ScanWrite(t)

ScanSpec == ScanInit /\ [][ScanNext]_vars

\* every await of doBackupNote completes, every pending timer fires, every
\* queued reaction runs; what the user does (edits, clicks, settings,
\* unloading) is not forced, and neither are the awaits of the bulk handlers,
\* on which no task waits
TaskStep(t) ==
    \/ DoMkRoot(t) \/ DoMkSub(t) \/ DoRead(t) \/ DoWrite(t)

AnyTimerFire(n) == \E id \in 1 .. (MaxEdits + MaxTriggers) : TimerFire(n, id)

LiveSpec ==
    /\ Spec
    /\ WF_vars(Resume)
    /\ \A t \in Tasks : WF_vars(TaskStep(t))
    /\ \A n \in Notes : WF_vars(AnyTimerFire(n))

\* ------------------------------------------- bulk scans in flight together
\* the user clicks the menu item of a note again while a scan of it is in flight:
\* the handler has no test for a scan in progress
StartScanAgain(n) ==
    /\ ready = <<>>
    /\ ~unloaded
    /\ uploader
    /\ \E t \in Tasks : task[t].kind = "scan" /\ task[t].n = n /\ task[t].pc # "done"
    /\ nextTask <= MaxScans
    /\ nextTask <= MaxTasks
    /\ nextTask' = nextTask + 1
    /\ task' = [task EXCEPT ![nextTask] = [IdleTask EXCEPT !.kind = "scan", !.n = n, !.pc = "s_read"]]
    /\ UNCHANGED <<backupPath, unloaded, note, folders, shadow, backupImgs, backupLocks,
                   waiters, ready, backupSyncTimers, timers, triggers, edits, envChanges,
                   issued>>
    /\ UNCHANGED upVars
    /\ UNCHANGED resVars
    /\ UNCHANGED unhandled

TwoScanNext ==
    \/ ScanNext
    \/ \E n \in Notes : StartScanAgain(n)

TwoScanSpec == ScanInit /\ [][TwoScanNext]_vars

\* ---------------------------- editor-drop, editor-paste and the uploader
\* files of a drop or paste event: two images (one with whitespace in its name)
\* and a text file; the type is <<type, subtype>>
FilePool ==
    { [name |-> ImgA, type |-> <<"image", "png">>],
      [name |-> ImgSp, type |-> <<"image", "png">>],
      [name |-> <<"n">>, type |-> <<"text", "plain">>] }

Selections == UNION {[1 .. k -> FilePool] : k \in 0 .. MaxFiles}

\* faulty variant: the type of the file is not tested
IsImageAny(f) == TRUE

\* file.type.startsWith("image/")
IsImage(f) == f.type[1] = "image"

\* onload and initUploader: all four settings are there
Configured(c) == c.secretId /\ c.secretKey /\ c.bucket /\ c.region

\* COSUploader.uploadFile's test before putObject
BucketAndRegion(c) == c.bucket /\ c.region

\* faulty variant: no try/catch inside the loop, a failure ends the handler
AfterFailureAbort(files, i) == Len(files) + 1

\* the catch block inside the for loop: the loop goes on with the next file
AfterFailure(files, i) == i + 1

RECURSIVE DropLoop(_, _, _, _, _)
\* the for loop from file i on, up to the first putObject: the file it stops at
\* (past the end: none), the notices shown and the files that failed on the way
DropLoop(t, files, i, up, c) ==
    IF i > Len(files) THEN [i |-> i, notices |-> <<>>, failed |-> {}, threw |-> FALSE]
    ELSE IF ~IsImage(files[i]) THEN DropLoop(t, files, i + 1, up, c)
    ELSE IF ~up
    THEN LET x == DropLoop(t, files, i + 1, up, c) IN
         [x EXCEPT !.notices = <<<<t, i, "not initialised">>>> \o @, !.failed = @ \cup {i}]
    ELSE IF ~BucketAndRegion(c)
    THEN LET x == DropLoop(t, files, AfterFailure(files, i), up, c) IN
         [x EXCEPT !.notices = <<<<t, i, "failed">>>> \o @, !.failed = @ \cup {i},
                   !.threw = TRUE]
    ELSE [i |-> i, notices |-> <<>>, failed |-> {}, threw |-> FALSE]

\* the try block a failure of uploadFile leaves: editor-drop's or editor-paste's
PutSite(kind) == IF kind = "paste" THEN "p_put" ELSE "u_put"

\* the handler runs on from file r.idx, after showing the notices of pre; threw:
\* the await it resumes from was rejected
DropContinue(t, r, pre, threw) ==
    LET x == DropLoop(t, r.files, r.idx, uploader, cred)
        r2 == [r EXCEPT !.idx = x.i, !.failed = @ \cup x.failed] IN
    /\ notices' = notices \o pre \o x.notices
    /\ IF threw \/ x.threw THEN Raise(PutSite(r.kind)) ELSE UNCHANGED unhandled
    /\ IF x.i <= Len(r.files)
       THEN /\ puts' = Append(puts, r.files[x.i])
            /\ task' = [task EXCEPT ![t] = [r2 EXCEPT !.pc = "u_put"]]
       ELSE /\ UNCHANGED puts
            /\ task' = [task EXCEPT ![t] = [r2 EXCEPT !.pc = "done"]]

\* the user drops or pastes files into the editor of note A
StartDrop(kind, files) ==
    /\ ready = <<>>
    /\ ~unloaded
    /\ triggers < MaxTriggers
    /\ nextTask <= MaxTasks
    /\ triggers' = triggers + 1
    /\ nextTask' = nextTask + 1
    /\ DropContinue(nextTask, [IdleTask EXCEPT !.kind = kind, !.n = "A/note.md",
                                              !.files = files, !.idx = 1], <<>>, FALSE)
    /\ UNCHANGED editor
    /\ UNCHANGED <<backupPath, unloaded, note, folders, shadow, backupImgs, backupLocks,
                   waiters, ready, backupSyncTimers, timers, edits, envChanges, issued,
                   cred, uploader, initTimer>>
    /\ UNCHANGED resVars

\* await uploader.uploadFile(file) completes (putObject and the signed URL)
DropUploadDone(t) ==
    /\ ready = <<>>
    /\ task[t].pc = "u_put"
    /\ LET r == task[t]
           f == r.files[r.idx] IN
       \/ /\ editor' = Append(editor, [alt |-> f.name,
                                       link |-> Tok("url", UploadName(f.name),
                                                    UploadStamp(t, r.idx), 0)])
          /\ DropContinue(t, [r EXCEPT !.ins = @ \cup {r.idx}, !.idx = @ + 1],
                          <<<<t, r.idx, "uploaded">>>>, FALSE)
       \/ /\ UNCHANGED editor                       \* upload error: catch, next file
          /\ DropContinue(t, [r EXCEPT !.failed = @ \cup {r.idx},
                                       !.idx = AfterFailure(r.files, r.idx)],
                          <<<<t, r.idx, "failed">>>>, TRUE)
    /\ UNCHANGED <<backupPath, unloaded, note, folders, shadow, backupImgs, backupLocks,
                   waiters, ready, backupSyncTimers, timers, nextTask, triggers, edits,
                   envChanges, issued, cred, uploader, initTimer>>
    /\ UNCHANGED resVars

\* the user sets or clears one of the four settings in the settings tab
EditCred(f, v) ==
    /\ ready = <<>>
    /\ cred[f] # v
    /\ envChanges < MaxEnvChanges
    /\ envChanges' = envChanges + 1
    /\ cred' = [cred EXCEPT ![f] = v]
    /\ initTimer' = IF f = "region" THEN initTimer ELSE TRUE
    /\ UNCHANGED <<backupPath, unloaded, note, folders, shadow, backupImgs, backupLocks,
                   waiters, ready, backupSyncTimers, timers, task, nextTask, triggers,
                   edits, issued, uploader, editor, puts, notices>>
    /\ UNCHANGED unhandled
    /\ UNCHANGED resVars

\* the debounced initUploader runs
InitUploader ==
    /\ ready = <<>>
    /\ initTimer
    /\ initTimer' = FALSE
    /\ uploader' = IF Configured(cred) THEN TRUE ELSE uploader
    /\ UNCHANGED <<backupPath, unloaded, note, folders, shadow, backupImgs, backupLocks,
                   waiters, ready, backupSyncTimers, timers, task, nextTask, triggers,
                   edits, envChanges, issued, cred, editor, puts, notices>>
    /\ UNCHANGED unhandled
    /\ UNCHANGED resVars

\* onload with any stored settings
UploadInit ==
    /\ backupPath = ""
    /\ unloaded = FALSE
    /\ note = [n \in Notes |-> Text(<<Tok("txt", <<>>, 0, 0)>>, 0)]
    /\ folders = {}
    /\ shadow = [f \in NoteFolders |-> NoFile]
    /\ backupImgs = {}
    /\ backupLocks = [n \in Notes |-> 0]
    /\ waiters = [t \in Tasks |-> <<>>]
    /\ ready = <<>>
    /\ backupSyncTimers = [n \in Notes |-> 0]
    /\ timers = {}
    /\ task = [t \in Tasks |-> IdleTask]
    /\ nextTask = 1
    /\ triggers = 0
    /\ edits = 0
    /\ envChanges = 0
    /\ issued = <<>>
    /\ cred \in [CredFields -> BOOLEAN]
    /\ uploader = Configured(cred)
    /\ initTimer = FALSE
    /\ editor = <<>>
    /\ puts = <<>>
    /\ notices = <<>>
    /\ unhandled = {}
    /\ localImgs = VaultImages
    /\ found = NoCall
    /\ scanned = NoLookup
    /\ refreshed = NoRefresh
    /\ manager = NoManager

UploadNext ==
    \/ \E kind \in {"drop", "paste"} : \E files \in Selections : StartDrop(kind, files)
    \/ \E t \in Tasks : DropUploadDone(t)
    \/ \E f \in CredFields : \E v \in BOOLEAN : EditCred(f, v)
    \/ InitUploader

UploadSpec == UploadInit /\ [][UploadNext]_vars

\* ------------------------------------------------- refresh of the signed URLs
\* /!\[.*?\]\((.*?)\)/g: the markdown images of the text, local or remote
IsMdImage(tok) == tok.k \in {"md", "url"}

RECURSIVE NextUrl(_, _)
\* new URL(imageUrl) throws for a match that is not a URL: inner catch, next match
NextUrl(ms, i) ==
    IF i > Len(ms) \/ ms[i].k = "url" THEN i ELSE NextUrl(ms, i + 1)

\* the URL getSignedUrl resolves with: the file name of the match, a new signature
\* (a token does not hold the host and the prefix of the key)
Resigned(tok) == [tok EXCEPT !.sfx = @ + 1]

\* the for loop from match r.idx on, up to the next await; after the loop
\* vault.modify if newContent differs from content; sites: what has thrown so far
RefreshContinue(t, r, sites) ==
    LET ms == SelectSeq(r.snap.toks, IsMdImage)
        j == NextUrl(ms, r.idx) IN
    /\ RaiseAll(sites \cup (IF j > r.idx THEN {"r_url"} ELSE {}))
    /\ IF j <= Len(ms)
       THEN task' = [task EXCEPT ![t] = [r EXCEPT !.idx = j, !.pc = "r_sign"]]
       ELSE IF r.newc # r.snap.toks
       THEN task' = [task EXCEPT ![t] = [r EXCEPT !.idx = j, !.pc = "r_write"]]
       ELSE task' = [task EXCEPT ![t] = DoneTask(r)]

\* the user clicks the refresh item of the file menu: the handler runs up to
\* await vault.read (this.uploader is not tested)
StartRefresh(n) ==
    /\ ready = <<>>
    /\ ~unloaded
    /\ triggers < MaxTriggers
    /\ nextTask <= MaxTasks
    /\ triggers' = triggers + 1
    /\ nextTask' = nextTask + 1
    /\ task' = [task EXCEPT ![nextTask] =
                   [IdleTask EXCEPT !.kind = "refresh", !.n = n, !.pc = "r_read"]]
    /\ UNCHANGED <<backupPath, unloaded, note, folders, shadow, backupImgs, backupLocks,
                   waiters, ready, backupSyncTimers, timers, edits, envChanges, issued>>
    /\ UNCHANGED upVars
    /\ UNCHANGED resVars
    /\ UNCHANGED unhandled

\* vault.read completes: the images are matched
RefreshRead(t) ==
    /\ ready = <<>>
    /\ task[t].pc = "r_read"
    /\ \/ RefreshContinue(t, [task[t] EXCEPT !.snap = note[task[t].n],
                                              !.newc = note[task[t].n].toks, !.idx = 1], {})
       \/ /\ task' = [task EXCEPT ![t] = DoneTask(task[t])]   \* read error: outer catch
          /\ Raise("r_read")
    /\ UNCHANGED <<backupPath, unloaded, note, folders, shadow, backupImgs, backupLocks,
                   waiters, ready, backupSyncTimers, timers, nextTask, triggers, edits,
                   envChanges, issued>>
    /\ UNCHANGED upVars
    /\ UNCHANGED resVars

\* await this.uploader.refreshSignedUrl(fileName) completes; it throws at once if
\* this.uploader is undefined
RefreshSign(t) ==
    /\ ready = <<>>
    /\ task[t].pc = "r_sign"
    /\ LET r == task[t]
           m == SelectSeq(r.snap.toks, IsMdImage)[r.idx] IN
       \/ /\ uploader
          /\ RefreshContinue(t, [r EXCEPT !.newc = ReplaceFirst(@, m, Resigned(m)),
                                          !.cnt = @ + 1, !.idx = @ + 1], {})
       \/ RefreshContinue(t, [r EXCEPT !.idx = @ + 1], {"r_sign"})   \* inner catch
    /\ UNCHANGED <<backupPath, unloaded, note, folders, shadow, backupImgs, backupLocks,
                   waiters, ready, backupSyncTimers, timers, nextTask, triggers, edits,
                   envChanges, issued>>
    /\ UNCHANGED upVars
    /\ UNCHANGED resVars

\* await vault.modify(file, newContent) completes
RefreshWrite(t) ==
    /\ ready = <<>>
    /\ task[t].pc = "r_write"
    /\ LET r == task[t] IN
       \/ /\ note' = [note EXCEPT ![r.n] = Text(r.newc, @.ver + 1)]
          /\ ModifyListener(r.n, note[r.n].ver + 1)
          /\ task' = [task EXCEPT ![t] = DoneTask(r)]
          /\ UNCHANGED unhandled
       \/ /\ task' = [task EXCEPT ![t] = DoneTask(r)]        \* write error: outer catch
          /\ Raise("r_write")
          /\ UNCHANGED <<note, timers, backupSyncTimers>>
    /\ UNCHANGED <<backupPath, unloaded, folders, shadow, backupImgs, backupLocks,
                   waiters, ready, nextTask, triggers, edits, envChanges, issued>>
    /\ UNCHANGED upVars
    /\ UNCHANGED resVars

\* every trigger handler of the plugin
HandlerNext ==
    \/ Next
    \/ \E kind \in {"drop", "paste"} : \E files \in Selections : StartDrop(kind, files)
    \/ \E t \in Tasks : DropUploadDone(t)
    \/ \E n \in Notes : StartRefresh(n)
    \/ \E t \in Tasks : RefreshRead(t)
    \/ \E t \in Tasks : RefreshSign(t)
    \/ \E t \in Tasks : RefreshWrite(t)

HandlerSpec == Init /\ [][HandlerNext]_vars

\* ------------------------------------------------------- findImageFile alone
\* files a vault may hold: a.png at the root, in the folder of note A, under a
\* leading separator (a host that keeps such a key) and in another folder; a file
\* with an upper-case extension; a file whose extension only contains "png"; a
\* text file
ResolvePool ==
    { ImgA, <<"A", "/">> \o ImgA, <<"/">> \o ImgA, ImgPA,
      <<"b", ".", "P", "N", "G">>, <<"e", ".", "p", "n", "g", "x">>,
      <<"t", ".", "t", "x", "t">> }

\* references a note may hold: by name, by a path of a folder that does not exist,
\* and to a file that is nowhere
ResolveRefs ==
    { ImgA, <<"d", "/">> \o ImgA, <<"b", ".", "P", "N", "G">>,
      <<"e", ".", "p", "n", "g", "x">>, <<"t", ".", "t", "x", "t">>, ImgX }

ResolveInit ==
    /\ backupPath = ""
    /\ unloaded = FALSE
    /\ note = [n \in Notes |-> Text(<<Tok("txt", <<>>, 0, 0)>>, 0)]
    /\ folders = {}
    /\ shadow = [f \in NoteFolders |-> NoFile]
    /\ backupImgs = {}
    /\ backupLocks = [n \in Notes |-> 0]
    /\ waiters = [t \in Tasks |-> <<>>]
    /\ ready = <<>>
    /\ backupSyncTimers = [n \in Notes |-> 0]
    /\ timers = {}
    /\ task = [t \in Tasks |-> IdleTask]
    /\ nextTask = 1
    /\ triggers = 0
    /\ edits = 0
    /\ envChanges = 0
    /\ issued = <<>>
    /\ cred = [f \in CredFields |-> TRUE]
    /\ uploader = TRUE
    /\ initTimer = FALSE
    /\ editor = <<>>
    /\ puts = <<>>
    /\ notices = <<>>
    /\ unhandled = {}
    /\ localImgs \in SUBSET ResolvePool
    /\ found = NoCall
    /\ scanned = NoLookup
    /\ refreshed = NoRefresh
    /\ manager = NoManager

\* a call of findImageFile(imagePath, currentFile) returns
Resolve(imagePath, n) ==
    /\ \E f \in Resolutions(imagePath, n) :
          found' = [path |-> imagePath, n |-> n, file |-> f]
    /\ UNCHANGED <<backupPath, unloaded, note, folders, shadow, backupImgs, backupLocks,
                   waiters, ready, backupSyncTimers, timers, task, nextTask, triggers,
                   edits, envChanges, issued, unhandled, localImgs, scanned, refreshed, manager>>
    /\ UNCHANGED upVars

ResolveNext == \E imagePath \in ResolveRefs : \E n \in Notes : Resolve(imagePath, n)

ResolveSpec == ResolveInit /\ [][ResolveNext]_vars

\* ------------------------------------------------------------ properties
InDoBackup(t) == task[t].pc \in {"d_mkroot", "d_mksub", "d_read", "d_write"}

Waiting(t) == task[t].pc = "b_wait"

Before(t, u) ==
    \E i, j \in 1 .. Len(issued) : i < j /\ issued[i] = t /\ issued[j] = u

\* C1: for every note path at most one doBackupNote is in progress at any time
C1_MutualExclusion ==
    \A t, u \in Tasks :
        (t # u /\ InDoBackup(t) /\ InDoBackup(u)) => task[t].n # task[u].n

\* a second backupNote of the note is held back while the first is in doBackupNote
C1_Witness ==
    \E t, u \in Tasks :
        InDoBackup(t) /\ Waiting(u) /\ task[t].n = task[u].n /\ backupLocks[task[t].n] = t

\* C2: every write of a shadow note is made by the earliest-called unfinished
\* backupNote of its note, and puts that request's whole text: requests of one
\* note write in call order, the later-called one last
C2_IssueOrder ==
    [][\A f \in NoteFolders :
          (shadow'[f] # shadow[f] /\ shadow'[f] # NoFile) =>
             \E t \in Tasks :
                /\ task[t].pc = "d_write" /\ task[t].sub = f /\ task'[t].pc = "done"
                /\ shadow'[f] = task[t].cur
                /\ ~ \E u \in Tasks : task[u].n = task[t].n /\ Before(u, t)]_vars

\* the request that had to wait is about to replace the text the earlier one wrote
C2_Witness ==
    \E t \in Tasks :
        /\ task[t].waited /\ task[t].pc = "d_write"
        /\ shadow[task[t].sub] # NoFile /\ shadow[task[t].sub] # task[t].cur

\* an entry of backupLocks exists only while its doBackupNote is in progress
LockInv ==
    \A n \in Notes :
        backupLocks[n] # 0 => (InDoBackup(backupLocks[n]) /\ task[backupLocks[n]].n = n)

\* C3: an entry of backupLocks is there only while its backup runs, it is removed by
\* the backup that set it, however that backup ended, and a waiting request
\* eventually enters doBackupNote
C3_LockProgress ==
    /\ []LockInv
    /\ [][\A n \in Notes :
             (backupLocks[n] # 0 /\ backupLocks'[n] # backupLocks[n]) =>
                 (backupLocks'[n] = 0 /\ task'[backupLocks[n]].pc = "done")]_vars
    /\ \A t \in Tasks : Waiting(t) ~> InDoBackup(t)

\* a request that waited has entered doBackupNote and the lock is its own
C3_Witness ==
    \E t \in Tasks : task[t].waited /\ InDoBackup(t) /\ backupLocks[task[t].n] = t

\* C4: a bulk scan's write of the note keeps the text the user typed into the note
\* since the scan read it
C4_NoLostUpdate ==
    [][\A t \in Tasks :
          (task[t].pc = "s_write" /\ task'[t] # task[t] /\ note' # note) =>
             \A i \in 1 .. Len(note[task[t].n].toks) :
                 note[task[t].n].toks[i].k = "txt" =>
                     \E j \in 1 .. Len(note'[task[t].n].toks) :
                         note'[task[t].n].toks[j] = note[task[t].n].toks[i]]_vars

C6_ReadAtFire ==
    /\ [](\A t \in Tasks :
            (task[t].kind = "auto" /\ task[t].pc = "d_write") =>
                (task[t].cur.ver >= task[t].fireVer /\ task[t].fireVer >= task[t].tid))
    /\ \A n \in Notes : \A id \in 1 .. (MaxEdits + MaxTriggers) :
          (<<n, id>> \in timers) ~>
              (unloaded \/ \E t \in Tasks : /\ task[t].kind = "auto" /\ task[t].n = n
                                              /\ InDoBackup(t) /\ task[t].fireVer >= id)

\* an auto-backup is about to write a text newer than the one its timer was set for
C6_Witness ==
    \E t \in Tasks :
        task[t].kind = "auto" /\ task[t].pc = "d_write" /\ task[t].cur.ver > task[t].tid

\* C7: no step of a debounced auto-backup creates a folder
C7_AutoNeverCreates ==
    [][\A t \in Tasks :
          (task[t].kind = "auto" /\ task'[t] # task[t]) => folders' \subseteq folders]_vars

\* C8: after onunload no timer is pending, backupSyncTimers is empty and no timer
\* callback starts
C8_Teardown ==
    /\ [](unloaded => (timers = {} /\ \A n \in Notes : backupSyncTimers[n] = 0))
    /\ [][unloaded => \A t \in Tasks : task'[t].kind = "auto" => task[t].kind = "auto"]_vars

\* the plugin is unloaded while an upload or a backup is still in progress
C8_Witness ==
    unloaded /\ \E t \in Tasks : task[t].pc = "s_upload" \/ InDoBackup(t)

\* C9: a bulk scan writes the note at most once, after the last reference, and only
\* if an upload succeeded
C9_SingleWrite ==
    [][\A t \in Tasks :
          (task[t].kind = "scan" /\ task'[t] # task[t] /\ note' # note) =>
             /\ task[t].pc = "s_write" /\ task[t].writes = 0 /\ task[t].cnt > 0
             /\ task[t].idx > Len(AllLocalImages(task[t].snap.toks))]_vars

\* a scan has written the note once and has gone on to backupNote
C9_Witness ==
    \E t \in Tasks : task[t].kind = "scan" /\ task[t].writes = 1 /\ task[t].cnt > 0

\* index in allLocalImages of the local reference at position p of the text
RefIndex(toks, p) ==
    IF IsLocalWiki(toks[p])
    THEN Cardinality({q \in 1 .. p : IsLocalWiki(toks[q])})
    ELSE Cardinality({q \in 1 .. Len(toks) : IsLocalWiki(toks[q])})
         + Cardinality({q \in 1 .. p : IsLocalMd(toks[q])})

\* C10: the text a bulk scan writes has the URL in place of exactly the references
\* whose upload succeeded, the others unchanged, and the count is their number
C10_PartialSuccess ==
    [][\A t \in Tasks :
          (task[t].pc = "s_write" /\ task'[t] # task[t] /\ note' # note) =>
             LET toks == task[t].snap.toks
                 SubstInPlace ==
                     [p \in 1 .. Len(toks) |->
                         IF (IsLocalWiki(toks[p]) \/ IsLocalMd(toks[p]))
                            /\ RefIndex(toks, p) \in task[t].ok
                         THEN Tok("url", UploadName(NoWs(FileName(findImageFile(toks[p].name, task[t].n)))),
                                  UploadStamp(t, RefIndex(toks, p)), 0)
                         ELSE toks[p]]
             IN /\ note'[task[t].n].toks = SubstInPlace
                /\ task[t].cnt = Cardinality(task[t].ok)]_vars

\* C11: a bulk scan that finds no local image reference in the note ends at once:
\* it uploads nothing, writes neither the note nor a shadow note, creates no folder
\* and no backup image and calls no backupNote; only a scan that found a local
\* reference ever gets further
C11_NoLocalNoop ==
    /\ [](\A t \in Tasks :
            (task[t].kind = "scan" /\ task[t].pc \notin {"s_read", "done"}) =>
                AllLocalImages(task[t].snap.toks) # <<>>)
    /\ [][\A t \in Tasks :
             (task[t].pc = "s_read" /\ task'[t] # task[t]
                 /\ AllLocalImages(note[task[t].n].toks) = <<>>) =>
                 /\ task'[t].pc = "done"
                 /\ UNCHANGED <<note, folders, shadow, backupImgs, backupLocks, issued,
                                timers, backupSyncTimers>>]_vars

\* a scan of a note that holds only a cloud link and has no backup folder has
\* ended, and the note has the text the scan read
C11_Witness ==
    \E t \in Tasks :
        /\ task[t].kind = "scan" /\ task[t].pc = "done"
        /\ \E i \in 1 .. Len(task[t].snap.toks) : task[t].snap.toks[i].k = "url"
        /\ note[task[t].n] = task[t].snap
        /\ folders = {}

\* a drop or paste handler
IsDrop(t) == task[t].kind \in {"drop", "paste"}

\* the image files of the event, by position
ImageIdx(t) == {i \in 1 .. Len(task[t].files) : task[t].files[i].type[1] = "image"}

\* C12: only image files are handed to putObject and only links of image files are
\* inserted; when the handler has ended, every image file of the event was either
\* uploaded and inserted or reported in a notice, whatever other files the event had
C12_OnlyImages ==
    /\ \A i \in 1 .. Len(puts) : puts[i].type[1] = "image"
    /\ \A i \in 1 .. Len(editor) :
          \E t \in Tasks : \E k \in ImageIdx(t) :
              /\ IsDrop(t) /\ k \in task[t].ins
              /\ editor[i].alt = task[t].files[k].name
              /\ editor[i].link.ts = UploadStamp(t, k)
    /\ \A t \in Tasks :
          IsDrop(t) =>
              /\ task[t].ins \cup task[t].failed \subseteq ImageIdx(t)
              /\ \A k \in task[t].ins :
                    \E i \in 1 .. Len(editor) : editor[i].link.ts = UploadStamp(t, k)
              /\ task[t].pc = "done" =>
                    (task[t].failed = {} => task[t].ins = ImageIdx(t))

\* an event with a text file before an image has ended: the image is inserted
C12_Witness ==
    \E t \in Tasks :
        /\ IsDrop(t) /\ task[t].pc = "done" /\ Len(task[t].files) = 2
        /\ task[t].files[1].type[1] = "text"
        /\ task[t].ins = {2} /\ Len(editor) = 1 /\ Len(puts) = 1

\* C13: when the upload of a file fails, a notice reports it, nothing is inserted
\* for it, and the files after it are still processed: at the end every image file
\* of the event is inserted or reported
C13_FailureIsolation ==
    /\ [](\A t \in Tasks :
            (IsDrop(t) /\ task[t].pc = "done") =>
                /\ task[t].ins \cup task[t].failed = ImageIdx(t)
                /\ task[t].ins \cap task[t].failed = {}
                /\ \A k \in task[t].failed :
                      /\ \E i \in 1 .. Len(notices) :
                            notices[i][1] = t /\ notices[i][2] = k /\ notices[i][3] # "uploaded"
                      /\ ~ \E i \in 1 .. Len(editor) : editor[i].link.ts = UploadStamp(t, k))
    /\ [][\A t \in Tasks :
             (task[t].pc = "u_put" /\ task'[t] # task[t] /\ task[t].idx \in task'[t].failed) =>
                 /\ editor' = editor
                 /\ Len(notices') > Len(notices)
                 /\ notices'[Len(notices) + 1] = <<t, task[t].idx, "failed">>
                 /\ task'[t].idx > task[t].idx]_vars

\* the first image of an event failed, the second is inserted
C13_Witness ==
    \E t \in Tasks :
        /\ IsDrop(t) /\ task[t].pc = "done"
        /\ task[t].failed = {1} /\ task[t].ins = {2} /\ Len(editor) = 1
        /\ Len(puts) = 2

\* C15: a file is handed to putObject only while secretId, secretKey, bucket and
\* region are all set
C15_NoPutUnconfigured ==
    [][puts' # puts => (cred.secretId /\ cred.secretKey /\ cred.bucket /\ cred.region)]_vars

\* C14: no error escapes a trigger handler: whatever await of the drop, paste,
\* bulk-scan, online-backup, refresh and auto-backup handlers fails, a catch block of
\* the program receives the error, and a handler that has ended holds no lock
C14_NoEscape ==
    /\ unhandled = {}
    /\ \A n \in Notes :
          backupLocks[n] # 0 => task[backupLocks[n]].pc \notin {"idle", "done"}

\* the first upload of a drop event was rejected and the handler went on to its end
C14_Witness ==
    \E t \in Tasks :
        /\ task[t].kind = "drop" /\ task[t].pc = "done" /\ 1 \in task[t].failed
        /\ \E i \in 1 .. Len(notices) : notices[i] = <<t, 1, "failed">>
        /\ uploader

\* C16: a failure of a backup step of a bulk scan (creating the backup folder or the
\* note's subfolder, writing a backup image) does not keep the scan from uploading:
\* after such a step the scan ends only if no reference of the note resolves to a file
C16_BackupNeverBlocks ==
    [][\A t \in Tasks :
          (task[t].pc \in {"s_mkroot", "s_mksub", "s_bkimg"} /\ task'[t] # task[t]) =>
             \/ task'[t].pc \in {"s_mksub", "s_readbin", "s_upload"}
             \/ LET refs == AllLocalImages(task[t].snap.toks)
                IN NextResolvable(refs, task[t].n, 1) > Len(refs)]_vars

\* C17: when a backup folder turns out to exist already while an operation is
\* creating it (the host reports "already exists"), the operation goes on as after
\* a successful creation, in the bulk scan, the online backup and doBackupNote
C17_AlreadyExistsTolerated ==
    [][\A t \in Tasks :
          /\ (task[t].pc \in {"s_mkroot", "o_mkroot", "d_mkroot"}
                /\ task[t].root \in folders /\ task'[t] # task[t]) => task'[t].pc # "done"
          /\ (task[t].pc \in {"s_mksub", "o_mksub", "d_mksub"}
                /\ task[t].sub \in folders /\ task'[t] # task[t]) => task'[t].pc # "done"]_vars

\* the name in the cloud URL of an image the bulk scan uploaded from a vault file of
\* that name: whitespace removed by the scan, then uploadFile's processing
CloudNameOf(fileName) == UploadName(NoWs(fileName))

\* C18: a shadow note, when backupNote writes it, holds no cloud URL of an image
\* whose backup image is in the note's backup folder, whatever the original name
C18_ShadowNoCloudUrl ==
    [][\A f \in NoteFolders :
          (shadow'[f] # shadow[f] /\ shadow'[f] # NoFile) =>
             \A i \in 1 .. Len(shadow'[f].toks) :
                 shadow'[f].toks[i].k = "url" =>
                     ~ \E x \in backupImgs :
                          x[1] = f /\ CloudNameOf(x[2][2]) = shadow'[f].toks[i].name]_vars

\* C19: the backup folder has a copy of the bytes of every image a bulk scan goes
\* on to upload without writing a backup file for it, also when an image of the
\* same file name from another folder was backed up before
C19_BackupHasBytes ==
    [][\A t \in Tasks :
          (task[t].pc = "s_readbin" /\ task'[t].pc = "s_upload") =>
             \E x \in backupImgs :
                 /\ x[1] = task[t].sub
                 /\ x[3] = findImageFile(AllLocalImages(task[t].snap.toks)[task[t].idx].name,
                                         task[t].n)]_vars

\* C20: backing up a file never skips the write and never replaces a file: the
\* bulk scan always goes on to write a backup file, and every backup file written
\* is a new one whose name has the smallest suffix not yet in use (none, then 1)
C20_SuffixOnCollision ==
    [][/\ \A t \in Tasks :
            (task[t].pc = "s_readbin" /\ task'[t].pc \in {"s_bkimg", "s_upload"}) =>
                task'[t].pc = "s_bkimg"
       /\ ~(backupImgs' \subseteq backupImgs) =>
            \E x \in backupImgs' \ backupImgs :
                /\ backupImgs' = backupImgs \cup {x}
                /\ ~HasFile(backupImgs, x[1], x[2])
                /\ x[2][3] = FreeSuffix(x[1], x[2][1], x[2][2], 0, backupImgs)]_vars

\* C21: once a drop or paste handler has ended with a successful upload, the backup
\* folder of the note and its shadow note exist
C21_BackupAfterUpload ==
    \A t \in Tasks :
        (IsDrop(t) /\ task[t].pc = "done" /\ task[t].ins # {}) =>
            /\ NoteBackupFolderPath(task[t].n, backupPath) \in folders
            /\ shadow[NoteBackupFolderPath(task[t].n, backupPath)] # NoFile

\* C22: once a bulk scan has written the note, the vault no longer has the local
\* file of any reference whose upload succeeded
C22_LocalFileDeleted ==
    \A t \in Tasks :
        (task[t].kind = "scan" /\ task[t].writes = 1) =>
            \A i \in task[t].ok : AllLocalImages(task[t].snap.toks)[i].name \notin localImgs

\* C23: two bulk scans of one note that read the same text never both upload the
\* same reference
C23_NoDoubleUpload ==
    \A t, u \in Tasks :
        (t # u /\ task[t].kind = "scan" /\ task[u].kind = "scan"
            /\ task[t].n = task[u].n /\ task[t].snap = task[u].snap) =>
            task[t].ok \cap task[u].ok = {}

\* C24: a bulk scan writes the backup copy of an image only after the upload of
\* that image has succeeded
C24_BackupAfterUpload ==
    [][\A t \in Tasks :
          (task[t].pc = "s_bkimg" /\ task'[t] # task[t]
              /\ ~(backupImgs' \subseteq backupImgs)) =>
             task[t].idx \in task[t].ok]_vars

\* C25: a bulk scan uploads the local references in the order of their places in
\* the text: when it uploads one, every local reference to its left was handled
C25_TextOrder ==
    [][\A t \in Tasks :
          (task[t].pc = "s_upload" /\ task'[t] # task[t]) =>
             LET toks == task[t].snap.toks IN
             \A p, q \in 1 .. Len(toks) :
                 (q < p /\ (IsLocalWiki(toks[p]) \/ IsLocalMd(toks[p]))
                     /\ (IsLocalWiki(toks[q]) \/ IsLocalMd(toks[q]))
                     /\ RefIndex(toks, p) = task[t].idx) =>
                     RefIndex(toks, q) < task[t].idx]_vars

\* the hits of the five strategies for the last call, in the order of the text
Hits(k) ==
    LET rel == <<Parent(found.n)>> \o <<"/">> \o found.path
        root == <<"/">> \o found.path
        clean == IF FileName(found.path) = <<>> THEN found.path ELSE FileName(found.path) IN
    CASE k = 1 -> {f \in {found.path} : f \in localImgs /\ isImageFile(f)}
      [] k = 2 -> {f \in {rel} : f \in localImgs /\ isImageFile(f)}
      [] k = 3 -> {f \in {root} : f \in localImgs /\ isImageFile(f)}
      [] k = 4 -> {f \in localImgs : FileName(f) = clean /\ isImageFile(f)}
      [] k = 5 -> {f \in localImgs : FileName(f) = found.path /\ isImageFile(f)}

\* C26: findImageFile returns a hit of the earliest strategy that has one (exact
\* path, relative to the note's folder, from the root, by cleaned name, by the raw
\* reference); it never returns the hit of a later strategy instead
C26_ResolverPriority ==
    found # NoCall =>
        \A k \in 1 .. 5 :
            (Hits(k) # {} /\ \A j \in 1 .. (k - 1) : Hits(j) = {}) => found.file \in Hits(k)

\* the file in the note's folder was returned although a file of the same name
\* exists elsewhere and the exact path has none
C26_Witness ==
    /\ found # NoCall /\ Hits(1) = {} /\ Hits(2) # {} /\ Hits(3) # {}
    /\ Cardinality(Hits(4)) > 1
    /\ found.file \in Hits(2)

\* C27: a reference that only the scan of the vault by name matches is resolved; a
\* reference no strategy matches gives null; and a call throws nothing and changes
\* neither the vault nor the backups
C27_ResolverFallback ==
    /\ [](found # NoCall =>
            /\ (Hits(1) \cup Hits(2) \cup Hits(3) = {} /\ Hits(4) # {}) =>
                   found.file \in Hits(4)
            /\ (\A k \in 1 .. 5 : Hits(k) = {}) => found.file = Null)
    /\ [][found' # found =>
             UNCHANGED <<localImgs, note, folders, shadow, backupImgs, unhandled>>]_vars

\* d/a.png, whose folder does not exist, was resolved to p/a.png by its name
C27_Witness ==
    /\ found.path = <<"d", "/">> \o ImgA /\ found.file = ImgPA
    /\ Hits(1) \cup Hits(2) \cup Hits(3) = {}

\* C28: the file findImageFile returns has an extension that, in lower case, is
\* exactly one of png, jpg, jpeg, gif, svg, webp
C28_ExactExtension ==
    (found # NoCall /\ found.file # Null) =>
        ToLowerCase(Extension(found.file)) \in ImageWords

\* the path begins with http:// or https://
IsHttpUrl(path) ==
    \/ Len(path) >= 7 /\ SubSeq(path, 1, 7) = <<"h", "t", "t", "p", ":", "/", "/">>
    \/ Len(path) >= 8 /\ SubSeq(path, 1, 8) = <<"h", "t", "t", "p", "s", ":", "/", "/">>

\* C29: a bulk scan passes over a reference as remote only if its path begins with
\* http:// or https://: a scan that ended for want of a local reference read a note
\* in which every wiki or markdown reference has such a path
C29_RemoteIffUrl ==
    \A t \in Tasks :
        (task[t].kind = "scan" /\ task[t].pc = "done") =>
            \A p \in 1 .. Len(task[t].snap.toks) :
                task[t].snap.toks[p].k \in {"wiki", "md"} =>
                    IsHttpUrl(task[t].snap.toks[p].name)

\* the name the storage key must end in, after the timestamp: the base name with
\* each run of whitespace replaced by "-", then the extension
KeyName(name) ==
    LET d == LastDot(name, Len(name)) IN
    Dashed(SubSeq(name, 1, d - 1)) \o SubSeq(name, d, Len(name))

\* C30: the link a bulk scan puts in place of an uploaded image names the key made
\* of the timestamp and the file's name with whitespace runs replaced by "-", and
\* the key has no whitespace
C30_StorageKey ==
    [][\A t \in Tasks :
          (task[t].pc = "s_upload" /\ task'[t].cnt = task[t].cnt + 1) =>
             LET ref == AllLocalImages(task[t].snap.toks)[task[t].idx]
                 file == findImageFile(ref.name, task[t].n) IN
             \E i \in 1 .. Len(task'[t].newc) :
                 /\ task'[t].newc[i].k = "url"
                 /\ task'[t].newc[i].ts = UploadStamp(t, task[t].idx)
                 /\ task'[t].newc[i].name = KeyName(FileName(file))
                 /\ \A j \in 1 .. Len(task'[t].newc[i].name) :
                       task'[t].newc[i].name[j] # " "]_vars

\* C31: different notes never share backup state: two doBackupNote calls that are in
\* progress for different notes work on different note backup folders, hence on
\* different shadow notes
C31_DistinctShadows ==
    \A t, u \in Tasks :
        (InDoBackup(t) /\ InDoBackup(u) /\ task[t].n # task[u].n) =>
            task[t].sub # task[u].sub

\* C32: the shadow note never regresses: while the settings and the folders are as at
\* the start (every note has its own shadow), a write of a shadow note that exists
\* puts there a text at least as new as the one it replaces
C32_ShadowNeverRegresses ==
    [][envChanges' = 0 =>
          \A f \in NoteFolders :
              (shadow[f] # NoFile /\ shadow'[f] # NoFile) =>
                  shadow'[f].ver >= shadow[f].ver]_vars

\* --------------------------- online note backups in flight together
\* the user clicks "在线笔记备份" on a note again while a backup of it is in flight:
\* the command has no test for a backup in progress
StartOnlineAgain(n) ==
    /\ ready = <<>>
    /\ ~unloaded
    /\ uploader
    /\ \E t \in Tasks : task[t].kind = "online" /\ task[t].n = n /\ task[t].pc # "done"
    /\ nextTask <= MaxScans
    /\ nextTask <= MaxTasks
    /\ nextTask' = nextTask + 1
    /\ task' = [task EXCEPT ![nextTask] = [IdleTask EXCEPT !.kind = "online", !.n = n, !.pc = "o_read"]]
    /\ UNCHANGED <<backupPath, unloaded, note, folders, shadow, backupImgs, backupLocks,
                   waiters, ready, backupSyncTimers, timers, triggers, edits, envChanges,
                   issued>>
    /\ UNCHANGED upVars
    /\ UNCHANGED resVars
    /\ UNCHANGED unhandled

\* online note backups and their backupNote
TwoOnlineNext ==
    \/ Resume
    \/ \E t \in Tasks : DoWrite(t)
    \/ \E n \in Notes : StartOnline(n)
    \/ \E n \in Notes : StartOnlineAgain(n)
    \/ \E t \in Tasks : OnlineRead(t)
    \/ \E t \in Tasks : OnlineMkRoot(t)
    \/ \E t \in Tasks : OnlineMkSub(t)
    \/ \E t \in Tasks : OnlineFetch(t)
    \/ \E t \in Tasks : OnlineCreate(t)

TwoOnlineSpec == ScanInit /\ [][TwoOnlineNext]_vars

\* C33: two backups that run together for one note never choose the same backup
\* image path: no two online note backups are between the existence test and
\* createBinary with the same path
C33_DistinctImagePaths ==
    \A t, u \in Tasks :
        (/\ t # u
         /\ task[t].pc \in {"o_fetch", "o_create"}
         /\ task[u].pc \in {"o_fetch", "o_create"}) =>
            <<task[t].sub, task[t].fname>> # <<task[u].sub, task[u].fname>>

\* no timer is pending and no backupNote lock is held
Quiet == timers = {} /\ \A n \in Notes : backupLocks[n] = 0

\* C34: no self-triggered backup loop: a write of a shadow note arms no timer, and
\* the system comes to rest with no pending timer and no held lock
C34_NoBackupLoop ==
    /\ [][(\E f \in NoteFolders : shadow'[f] # shadow[f] /\ shadow'[f] # NoFile) =>
              timers' \subseteq timers]_vars
    /\ <>[]Quiet

\* everything the user could start has run, the last backup wrote the newest text
\* of note A over an existing shadow, and the system is at rest
C34_Witness ==
    /\ Quiet
    /\ edits = MaxEdits /\ triggers = MaxTriggers /\ nextTask > MaxTasks
    /\ \A t \in Tasks : task[t].pc = "done"
    /\ note["A/note.md"].ver = 2
    /\ shadow[NoteBackupFolderPath("A/note.md", backupPath)] # NoFile
    /\ shadow[NoteBackupFolderPath("A/note.md", backupPath)].ver = 2

\* ------------------------------------------------ the full scan's lookup
Jpg == <<".", "j", "p", "g">>

\* names of backup images: two of one stem, one with whitespace and its dashed form
BackupNamePool == {ImgA, <<"a">> \o Jpg, ImgB, ImgSp, <<"c", "-", "d">> \o Png}

\* names taken from cloud URLs, the timestamp removed
LookupNames == {ImgA, <<"a">> \o Jpg, <<"c", "-", "d">> \o Png, ImgX}

MaxListed == 3

\* the image files of a note's backup folder, in the order vault.getFiles() lists them
Listings ==
    {fs \in UNION {[1 .. k -> BackupNamePool] : k \in 0 .. MaxListed} :
        \A i, j \in 1 .. Len(fs) : i # j => fs[i] # fs[j]}

LookupInit ==
    /\ backupPath = ""
    /\ unloaded = FALSE
    /\ note = [n \in Notes |-> Text(<<Tok("txt", <<>>, 0, 0)>>, 0)]
    /\ folders = {}
    /\ shadow = [f \in NoteFolders |-> NoFile]
    /\ backupImgs = {}
    /\ backupLocks = [n \in Notes |-> 0]
    /\ waiters = [t \in Tasks |-> <<>>]
    /\ ready = <<>>
    /\ backupSyncTimers = [n \in Notes |-> 0]
    /\ timers = {}
    /\ task = [t \in Tasks |-> IdleTask]
    /\ nextTask = 1
    /\ triggers = 0
    /\ edits = 0
    /\ envChanges = 0
    /\ issued = <<>>
    /\ cred = [f \in CredFields |-> TRUE]
    /\ uploader = TRUE
    /\ initTimer = FALSE
    /\ editor = <<>>
    /\ puts = <<>>
    /\ notices = <<>>
    /\ unhandled = {}
    /\ localImgs = VaultImages
    /\ found = NoCall
    /\ \E fs \in Listings : scanned = [files |-> fs, name |-> <<>>, hit |-> Null]
    /\ refreshed = NoRefresh
    /\ manager = NoManager

\* the full scan looks up the backup image for one cloud URL
Lookup(name) ==
    /\ scanned' = [scanned EXCEPT !.name = name, !.hit = matchingBackup(scanned.files, name)]
    /\ UNCHANGED <<backupPath, unloaded, note, folders, shadow, backupImgs, backupLocks,
                   waiters, ready, backupSyncTimers, timers, task, nextTask, triggers,
                   edits, envChanges, issued, unhandled, localImgs, found, refreshed, manager>>
    /\ UNCHANGED upVars

LookupNext == \E name \in LookupNames : Lookup(name)

LookupSpec == LookupInit /\ [][LookupNext]_vars

\* C35: when the backup folder has a file whose name is exactly the name derived from
\* the cloud URL, the full scan links to that file, not to one that matches only
\* by the part before the extension
C35_ExactMatchFirst ==
    (scanned.name # <<>> /\ \E i \in 1 .. Len(scanned.files) : scanned.files[i] = scanned.name)
        => scanned.hit = scanned.name

\* ------------------------------------------- the refresh of one text
\* a string with "/" in it is the sequence of the parts between the "/":
\* "" is <<"">>, "img" is <<"img">>, "img/f" is <<"img", "f">>, "/f" is <<"", "f">>
Prefixes == {<<"">>, <<"img">>}

\* uploadFile's fullPath: prefix = settings.prefix ? `${settings.prefix}/` : ""
uploadFullPath(prefix, fileName) ==
    IF prefix # <<"">> THEN prefix \o <<fileName>> ELSE <<fileName>>

\* refreshSignedUrl(fileName): getSignedUrl(fileName, settings.prefix + "/") asks the
\* configured bucket ("cos") for Key = prefix + fileName; sign 1 is a new signature
refreshSignedUrl(prefix, fileName) ==
    [k |-> "url", host |-> "cos", key |-> prefix \o <<fileName>>, sign |-> 1]

\* a piece of text: k = "wiki" ![[..]], "md" ![](local path), "url" ![](https://host/key?sign)
Link(k, host, key, sign) == [k |-> k, host |-> host, key |-> key, sign |-> sign]

\* a wiki reference, a local markdown reference, links of the bucket uploaded without
\* a prefix and with the prefix img, and a link of another host
LinkPool ==
    { Link("wiki", "", <<"a.png">>, 0),
      Link("md", "", <<"a.png">>, 0),
      Link("url", "cos", <<"1-a.png">>, 0),
      Link("url", "cos", <<"img", "1-a.png">>, 0),
      Link("url", "other", <<"pics", "b.png">>, 0) }

MaxLinks == 2

RefreshTexts == UNION {[1 .. k -> LinkPool] : k \in 0 .. MaxLinks}

\* /!\[.*?\]\((.*?)\)/g
IsMdLink(l) == l.k \in {"md", "url"}

RECURSIVE RefreshLoop(_, _, _, _)
\* the for loop over the matches: new URL(imageUrl) throws for a local path (next
\* match); fileName is what follows the last "/" of the URL's path; the first
\* occurrence of imageUrl in newContent is replaced
RefreshLoop(ms, i, newContent, prefix) ==
    IF i > Len(ms) THEN newContent
    ELSE IF ms[i].k # "url" THEN RefreshLoop(ms, i + 1, newContent, prefix)
    ELSE RefreshLoop(ms, i + 1,
                     ReplaceFirst(newContent, ms[i],
                                  refreshSignedUrl(prefix, ms[i].key[Len(ms[i].key)])),
                     prefix)

RefreshInit ==
    /\ backupPath = ""
    /\ unloaded = FALSE
    /\ note = [n \in Notes |-> Text(<<Tok("txt", <<>>, 0, 0)>>, 0)]
    /\ folders = {}
    /\ shadow = [f \in NoteFolders |-> NoFile]
    /\ backupImgs = {}
    /\ backupLocks = [n \in Notes |-> 0]
    /\ waiters = [t \in Tasks |-> <<>>]
    /\ ready = <<>>
    /\ backupSyncTimers = [n \in Notes |-> 0]
    /\ timers = {}
    /\ task = [t \in Tasks |-> IdleTask]
    /\ nextTask = 1
    /\ triggers = 0
    /\ edits = 0
    /\ envChanges = 0
    /\ issued = <<>>
    /\ cred = [f \in CredFields |-> TRUE]
    /\ uploader = TRUE
    /\ initTimer = FALSE
    /\ editor = <<>>
    /\ puts = <<>>
    /\ notices = <<>>
    /\ unhandled = {}
    /\ localImgs = VaultImages
    /\ found = NoCall
    /\ scanned = NoLookup
    /\ \E prefix \in Prefixes : \E text \in RefreshTexts :
          refreshed = [prefix |-> prefix, text |-> text, out |-> <<>>, done |-> FALSE]
    /\ manager = NoManager

\* the refresh handler goes through the text it read; every signing succeeds
RefreshText ==
    /\ ~refreshed.done
    /\ refreshed' = [refreshed EXCEPT !.done = TRUE, !.out =
            RefreshLoop(SelectSeq(refreshed.text, IsMdLink), 1, refreshed.text,
                        refreshed.prefix)]
    /\ UNCHANGED <<backupPath, unloaded, note, folders, shadow, backupImgs, backupLocks,
                   waiters, ready, backupSyncTimers, timers, task, nextTask, triggers,
                   edits, envChanges, issued, unhandled, localImgs, found, scanned, manager>>
    /\ UNCHANGED upVars

RefreshTextSpec == RefreshInit /\ [][RefreshText]_vars

\* C36: the refresh rewrites only the links to objects of the configured bucket:
\* local references and links of other hosts are in the new text as they were
C36_OnlyOwnImages ==
    refreshed.done =>
        \A i \in 1 .. Len(refreshed.text) :
            ~(refreshed.text[i].k = "url" /\ refreshed.text[i].host = "cos") =>
                refreshed.out[i] = refreshed.text[i]

\* C37: the refresh signs the key under which uploadFile stored the image: a link
\* of the bucket whose key is the one uploadFile makes with the prefix setting as
\* it is keeps its key
C37_RefreshSameKey ==
    refreshed.done =>
        \A i \in 1 .. Len(refreshed.text) :
            LET l == refreshed.text[i] IN
            (l.k = "url" /\ l.host = "cos"
                 /\ l.key = uploadFullPath(refreshed.prefix, l.key[Len(l.key)])) =>
                refreshed.out[i].key = l.key

\* ------------------------------------------------- the image manager
MaxDeletes == 2       \* clicks on the delete button that open the confirm dialog

\* nothing but the image manager changes
ManagerOnly ==
    /\ UNCHANGED <<backupPath, unloaded, note, folders, shadow, backupImgs, backupLocks,
                   waiters, ready, backupSyncTimers, timers, task, nextTask, triggers,
                   edits, envChanges, issued, unhandled, localImgs, found, scanned,
                   refreshed>>
    /\ UNCHANGED upVars

\* the confirm dialog is open: it covers the image manager
DialogOpen == manager.del.pc = "confirm"

\* resolve(value) of the dialog's promise: only the first call settles it
Settle(answer, value) == IF answer = "pending" THEN value ELSE answer

\* loadImages(reset) up to await listImages
loadImages(m, reset) ==
    IF m.loading THEN m
    ELSE [m EXCEPT !.loading = TRUE,
                   !.images = IF reset THEN {} ELSE @,
                   !.selectedImages = IF reset THEN {} ELSE @,
                   !.list = [pc |-> "sent", reset |-> reset, result |-> {}]]

\* updateImageList(): the items of this.images are rendered
updateImageList(m) == [m EXCEPT !.shown = m.images]

\* onOpen: the toolbar is built, loadImages()
OnOpen ==
    /\ ~manager.opened
    /\ manager' = loadImages([manager EXCEPT !.opened = TRUE], FALSE)
    /\ ManagerOnly

\* the bucket answers getBucket: the image keys it has now, or an error
ListServe ==
    /\ manager.list.pc = "sent"
    /\ \/ manager' = [manager EXCEPT !.list.pc = "served", !.list.result = manager.bucket]
       \/ manager' = [manager EXCEPT !.list.pc = "failed"]
    /\ ManagerOnly

\* await listImages completes: the list is replaced or extended, and rendered
ListDone ==
    /\ manager.list.pc \in {"served", "failed"}
    /\ manager' =
         IF manager.list.pc = "served"
         THEN updateImageList(
                 [manager EXCEPT !.images = IF manager.list.reset THEN manager.list.result
                                                                  ELSE @ \cup manager.list.result,
                                 !.loading = FALSE, !.list.pc = "idle"])
         ELSE [manager EXCEPT !.loading = FALSE, !.list.pc = "idle"]
    /\ ManagerOnly

\* the refresh button: loadImages(true)
ClickRefresh ==
    /\ manager.opened /\ ~DialogOpen
    /\ ~manager.loading
    /\ manager' = loadImages(manager, TRUE)
    /\ ManagerOnly

\* the checkbox of a rendered item changes
Toggle(key) ==
    /\ manager.opened /\ ~DialogOpen
    /\ key \in manager.shown
    /\ manager' = updateImageList(
            [manager EXCEPT !.selectedImages =
                IF key \in @ THEN @ \ {key} ELSE @ \cup {key}])
    /\ ManagerOnly

\* the select-all button
SelectAll ==
    /\ manager.opened /\ ~DialogOpen
    /\ manager' = updateImageList(
            [manager EXCEPT !.selectedImages =
                IF Cardinality(@) = Cardinality(manager.images) THEN {}
                ELSE @ \cup manager.images])
    /\ ManagerOnly

\* the delete button: deleteSelectedImages up to await showDeleteConfirmDialog
ClickDelete ==
    /\ manager.opened /\ ~DialogOpen
    /\ manager.del.pc = "idle"
    /\ manager.selectedImages # {}
    /\ manager.deletes < MaxDeletes
    /\ manager' = [manager EXCEPT
            !.deletes = @ + 1,
            !.del = [pc |-> "confirm", keys |-> manager.selectedImages,
                     answer |-> "pending", button |-> "none", delivered |-> 0,
                     result |-> {}]]
    /\ ManagerOnly

\* the user presses a button of the dialog or closes it: confirm calls
\* resolve(true) and close(), cancel resolve(false) and close(), and close() runs
\* onClose, which calls resolve(false); then deleteSelectedImages goes on
Press(button) ==
    /\ DialogOpen
    /\ LET first == CASE button = "confirm" -> Settle("pending", "yes")
                      [] button = "cancel" -> Settle("pending", "no")
                      [] OTHER -> "pending"
           answer == Settle(first, "no") IN
       manager' = [manager EXCEPT
            !.del.answer = answer,
            !.del.button = button,
            !.del.delivered = @ + 1,
            !.del.pc = IF answer = "yes" THEN "sent" ELSE "idle",
            !.requests = IF answer = "yes" THEN Append(@, manager.del.keys) ELSE @]
    /\ ManagerOnly

\* the bucket answers deleteMultipleObject: some of the keys are deleted, or an error
DeleteServe ==
    /\ manager.del.pc = "sent"
    /\ \/ \E deleted \in SUBSET manager.del.keys :
             manager' = [manager EXCEPT !.del.pc = "served", !.del.result = deleted,
                                        !.bucket = @ \ deleted]
       \/ manager' = [manager EXCEPT !.del.pc = "failed"]
    /\ ManagerOnly

\* await deleteMultipleImages completes: the deleted keys leave the list and the selection
DeleteDone ==
    /\ manager.del.pc \in {"served", "failed"}
    /\ manager' =
         IF manager.del.pc = "served" /\ manager.del.result # {}
         THEN updateImageList(
                 [manager EXCEPT !.images = @ \ manager.del.result,
                                 !.selectedImages = @ \ manager.del.result,
                                 !.del.pc = "idle"])
         ELSE [manager EXCEPT !.del.pc = "idle"]
    /\ ManagerOnly

ManagerNext ==
    \/ OnOpen
    \/ ListServe
    \/ ListDone
    \/ ClickRefresh
    \/ \E key \in Keys : Toggle(key)
    \/ SelectAll
    \/ ClickDelete
    \/ \E button \in {"confirm", "cancel", "close"} : Press(button)
    \/ DeleteServe
    \/ DeleteDone

ManagerSpec == Init /\ [][ManagerNext]_vars

\* C38: objects are deleted only after the confirm button was pressed, the dialog's
\* result is delivered once, and after a delete the selection holds only keys of
\* images that are still listed
C38_DeleteOnlyConfirmed ==
    /\ [][manager'.requests # manager.requests =>
             (DialogOpen /\ manager'.del.button = "confirm"
                 /\ manager'.requests = Append(manager.requests, manager.del.keys))]_vars
    /\ [](manager.del.delivered <= 1
            /\ (manager.del.pc \in {"sent", "served", "failed"} => manager.del.delivered = 1))
    /\ [][(manager.del.pc = "served" /\ manager.del.result # {}
                /\ manager'.del.pc = "idle") =>
             manager'.selectedImages \subseteq manager'.images]_vars

\* findImageFile without its fifth strategy: after the scan for the cleaned name
\* comes null
WithoutStrategy5(imagePath, n) ==
    LET rel == <<Parent(n)>> \o <<"/">> \o imagePath
        cleanPath == IF FileName(imagePath) = <<>> THEN imagePath ELSE FileName(imagePath)
        byClean == {f \in localImgs : FileName(f) = cleanPath /\ isImageFile(f)} IN
    IF ImageAt(imagePath) THEN {imagePath}
    ELSE IF ImageAt(rel) THEN {rel}
    ELSE IF ImageAt(<<"/">> \o imagePath) THEN {<<"/">> \o imagePath}
    ELSE IF byClean # {} THEN byClean
    ELSE {Null}

\* C39: the fifth strategy of findImageFile never finds a file: what a call returns
\* is what findImageFile without that strategy returns
C39_Strategy5Redundant ==
    found # NoCall => found.file \in WithoutStrategy5(found.path, found.n)

\* a call for a reference that is the name of a file of the vault went through all
\* five strategies, in a vault that has image files, and returned null
C39_Witness ==
    /\ found # NoCall
    /\ found.file = Null
    /\ found.path = <<"t", ".", "t", "x", "t">>
    /\ \E f \in localImgs : isImageFile(f)
    /\ \E f \in localImgs : FileName(f) = FileName(found.path)

====
